---- MODULE Spec2Model ----
(***************************************************************************)
(* Model of the todo-list MCP server's JSON file data store                *)
(* (JsonFileDataStore: one file per list, a process-wide async mutex and   *)
(* an in-memory list-id cache) and of TodoService.createTodo on top of it. *)
(* One Node.js process: calls are issued at any time, each store operation *)
(* queues on the mutex and runs its awaits as separate steps.              *)
(***************************************************************************)
EXTENDS Integers, Sequences, FiniteSets, TLC

\* ------------------------------------------------------------------ bounds
\* Seqnos offered to store-level calls and present in initial files.
MaxSeqno == 2
\* Calls issued in one behaviour (each is one caller awaiting one promise).
MaxCalls == 2
\* Calls issued together against one list (a Promise.all of store calls).
MaxContenders == 3
\* Tool calls that are logged in one behaviour.
MaxLogCalls == 2
\* Calls made to the SQLite store in one behaviour.
MaxSqlOps == 3

\* Calls made to the DataService in one behaviour.
MaxServiceCalls == 4
\* Tool calls the server receives in one behaviour.
MaxToolCalls == 2

Lists == {"L1", "L2"}
Seqnos == 1..MaxSeqno
Statuses == {"pending", "completed", "canceled"}
\* A field a Partial<Todo> update does not carry.
Absent == "absent"

VARIABLES
    cache,      \* todoListCache: the ids of the lists this process knows
    files,      \* the list files on disk, by list id
    calls,      \* the calls issued so far, in issue order
    queue,      \* operationMutex: its holder (the head) and the waiters behind it
    assigned,   \* history: per list, the seqnos a todo of the list has held since the list was created
    reused,     \* history: the (list, seqno) pairs the service assigned although already assigned
    tainted,    \* history: the lists that saw a deletion or a creation with a caller-chosen seqno
    exclusive,  \* history: FALSE once a store step ran while another operation was inside the mutex region
    start,      \* history: the cache and the files as initialize() left them
    tmp,        \* the temporary files (<file>.tmp) on disk, by list id
    lock,       \* the advisory locks (<file>.lock) on disk, by list id: their holder
    proc,       \* the processes sharing the data directory, seen at the level of file-system calls
    service,    \* DataService: the retained store, the stores made and closed, the calls made to it
    tools,      \* the tool calls received so far, each with its handler's position and its response
    client,     \* the script the client follows (empty: it sends what it likes)
    db,         \* the SQLite database file and the store opened on it
    main,       \* main(): its position, the signal handlers it registered, the exit status
    log         \* the API logger: its directory, the log file, the calls made to it

\* the part of the state that only the file-system level steps change
diskVars == <<tmp, lock, proc>>

\* the state of one store instance and the history kept about it
storeVars == <<cache, files, calls, queue, assigned, reused, tainted, exclusive, start>>

\* the part of the state above the store: the services, the tool layer, the process
serverVars == <<service, tools, client, db, main, log>>

\* what the DataService's own steps leave alone, and what the tool handlers' do
besideService == <<tools, client, db, main, log>>
besideTools == <<service, client, db, main, log>>
besideDb == <<service, tools, client, main, log>>
besideMain == <<tools, client, db, log>>
besideLog == <<service, client, db, main>>

vars == <<cache, files, calls, queue, assigned, reused, tainted, exclusive, start, tmp, lock, proc, service, tools, client, db, main, log>>

\* ------------------------------------------------------------------ values
Todo(l, s, title, status) == [listId |-> l, seqno |-> s, title |-> title, status |-> status]

NoFile == [exists |-> FALSE]

\* interface TodoListData { todoList, todos, version }
TodoListData(todoList, todos) ==
    [exists |-> TRUE, todoList |-> todoList, todos |-> todos, version |-> "2.0.0"]

SeqnosOf(todos) == {todos[i].seqno : i \in DOMAIN todos}

\* return values and exceptions of an operation
Undefined == [kind |-> "undefined"]
Void == [kind |-> "void"]
Bool(b) == [kind |-> "bool", b |-> b]
TodoValue(t) == [kind |-> "todo", todo |-> t]
TodosValue(ts) == [kind |-> "todos", todos |-> ts]
ListValue(id) == [kind |-> "list", id |-> id]
Pending == [kind |-> "pending"]

\* class DataStoreException: name, code; plus the subclass payload
Exception(name, code, detail) == [kind |-> "throw", name |-> name, code |-> code, detail |-> detail]
ConstraintViolationException(constraintType) ==
    Exception("ConstraintViolationException", "CONSTRAINT_VIOLATION", constraintType)
FileOperationException(operation) ==
    Exception("FileOperationException", "FILE_OPERATION_FAILED", operation)
\* a Node.js system error (fs, proper-lockfile) on a missing path
SystemError(code) == Exception("Error", code, "")

IsThrow(r) == r.kind = "throw"

\* ------------------------------------------------------------ pure helpers
\* Array.prototype.sort((a, b) => a.seqno - b.seqno): stable, ascending by seqno
RECURSIVE InsertBySeqno(_, _)
InsertBySeqno(t, sorted) ==
    IF sorted = <<>> THEN <<t>>
    ELSE IF Head(sorted).seqno <= t.seqno
         THEN <<Head(sorted)>> \o InsertBySeqno(t, Tail(sorted))
         ELSE <<t>> \o sorted

\* mutant: the array is left in the order it has
NoSort(todos) == todos

RECURSIVE SortBySeqno(_)
SortBySeqno(todos) ==
    IF todos = <<>> THEN <<>>
    ELSE InsertBySeqno(todos[Len(todos)], SortBySeqno(SubSeq(todos, 1, Len(todos) - 1)))

\* todos.findIndex(todo => todo.seqno === seqno): 0 stands for -1 (indices from 1)
RECURSIVE FindIndexFrom(_, _, _)
FindIndexFrom(todos, seqno, i) ==
    IF i > Len(todos) THEN 0
    ELSE IF todos[i].seqno = seqno THEN i
    ELSE FindIndexFrom(todos, seqno, i + 1)

\* mutant: find returns the first todo of the list, whatever its seqno
FindIndexFirst(todos, seqno) == IF Len(todos) = 0 THEN 0 ELSE 1

FindIndex(todos, seqno) == FindIndexFrom(todos, seqno, 1)

\* todos.filter(todo => todo.seqno !== seqno)
FilterOut(todos, seqno) == SelectSeq(todos, LAMBDA t : t.seqno # seqno)

\* mutant: a field the updates do not carry overwrites the todo's field
MergeAbsentToo(existing, updates) ==
    [listId |-> existing.listId,
     seqno  |-> existing.seqno,
     title  |-> updates.title,
     status |-> updates.status]

\* mutant: only a pending todo takes a new status
MergeFromPendingOnly(existing, updates) ==
    [listId |-> existing.listId,
     seqno  |-> existing.seqno,
     title  |-> IF updates.title = Absent THEN existing.title ELSE updates.title,
     status |-> IF updates.status = Absent \/ existing.status # "pending"
                THEN existing.status ELSE updates.status]

\* { ...existing, ...updates, listId: existing.listId, seqno: existing.seqno }
Merge(existing, updates) ==
    [listId |-> existing.listId,
     seqno  |-> existing.seqno,
     title  |-> IF updates.title = Absent THEN existing.title ELSE updates.title,
     status |-> IF updates.status = Absent THEN existing.status ELSE updates.status]

\* todos.reduce((max, todo) => Math.max(max, todo.seqno), 0) + 1
RECURSIVE MaxSeqnoFrom(_, _, _)
MaxSeqnoFrom(todos, i, max) ==
    IF i > Len(todos) THEN max
    ELSE MaxSeqnoFrom(todos, i + 1, IF todos[i].seqno > max THEN todos[i].seqno ELSE max)

\* mutant: the next seqno taken from the number of todos
NewSeqnoByCount(todos) == Len(todos) + 1

NewSeqno(todos) == MaxSeqnoFrom(todos, 1, 0) + 1

\* ------------------------------------------------------------- file layer
\* lockfile.lock(filePath): proper-lockfile resolves the real path first, so a
\* missing file is an ENOENT error; in one process no other holder exists
LockFile(fs, l) == IF fs[l].exists THEN Void ELSE SystemError("ENOENT")

\* fs.readFile(filePath, 'utf-8')
ReadFile(fs, l) == IF fs[l].exists THEN [kind |-> "content", data |-> fs[l]] ELSE SystemError("ENOENT")

\* withFileLock: whatever the lock or the operation throws is caught and
\* rethrown as FileOperationException(..., 'LOCK', ...)
WithFileLock(fs, l, operationResult) ==
    IF IsThrow(LockFile(fs, l)) THEN FileOperationException("LOCK")
    ELSE IF IsThrow(operationResult) THEN FileOperationException("LOCK")
    ELSE operationResult

\* loadTodoListData: undefined only for an error whose code is ENOENT
LoadTodoListData(fs, l) ==
    LET r == WithFileLock(fs, l, ReadFile(fs, l))
    IN  IF IsThrow(r)
        THEN IF r.code = "ENOENT" THEN Undefined ELSE r
        ELSE r

\* saveTodoListData: the file is created if missing, then rewritten whole
\* (temp file + rename) with the todos sorted by seqno
SaveTodoListData(fs, l, todoList, todos) ==
    [fs EXCEPT ![l] = TodoListData(todoList, SortBySeqno(todos))]

\* this.todoListCache.get(listId)
CacheGet(c, l) == IF l \in c THEN l ELSE "undefined"

\* ------------------------------------------------------------------- calls
NoUpdates == [title |-> Absent, status |-> Absent]

\* the updates callers pass to updateTodo
UpdatesMenu ==
    { [title |-> Absent, status |-> "completed"],
      [title |-> Absent, status |-> "canceled"],
      [title |-> "u", status |-> Absent] }

Request(op, l, s, title, updates) ==
    [op |-> op, listId |-> l, seqno |-> s, title |-> title, updates |-> updates]

\* what a caller may ask of the store (DataStore interface) or of TodoService
Menu ==
    { Request(op, l, 0, "", NoUpdates) :
        op \in {"createTodoList", "getTodoList", "updateTodoList", "deleteTodoList", "getTodosByListId"},
        l \in Lists }
    \cup { Request(op, l, s, "", NoUpdates) : op \in {"getTodo", "deleteTodo"}, l \in Lists, s \in Seqnos }
    \cup { Request("createTodo", l, s, "t", NoUpdates) : l \in Lists, s \in Seqnos }
    \cup { Request("updateTodo", l, s, "", u) : l \in Lists, s \in Seqnos, u \in UpdatesMenu }
    \cup { Request("svc.createTodo", l, 0, "t", NoUpdates) : l \in Lists }

\* the first store operation a request runs
FirstStoreOp(op) ==
    IF op = "svc.createTodo" THEN "getTodosByListId"
    ELSE IF op = "svc.updateTodo" THEN "updateTodo"
    ELSE op

\* positions of a store operation between its first and last await
MidPcs == {"loaded", "saved", "unlinked"}

DoneCalls == {c \in DOMAIN calls : calls[c].pc = "done"}

\* the fact: c is the operation currently inside the mutex region
InsideMutex(c) == queue # <<>> /\ Head(queue) = c

\* mutant: the callback runs as soon as it is queued, without waiting
MayRunUnlocked(c) == \E i \in DOMAIN queue : queue[i] = c

\* operationMutex.runExclusive: the callback runs once every earlier
\* acquirer has released (async-mutex serves waiters first come, first served)
MayRun(c) == queue # <<>> /\ Head(queue) = c

\* mutant: runExclusive returns without releasing the mutex
DequeueNever(q, c) == q

\* release: c leaves the mutex queue
Dequeue(q, c) == SelectSeq(q, LAMBDA x : x # c)

OthersOutside(c) == \A d \in DOMAIN calls : d # c => calls[d].pc \notin MidPcs

\* ------------------------------------------------- processes and the disk
\* the server processes that share one data directory
Procs == {"A", "B"}

\* the processes are alike: the one that starts the first operation is called A
FirstProc == "A"

\* nobody holds the advisory lock of a file
Free == "free"
\* a process with no store operation in progress
Idle == [op |-> "idle"]

\* ------------------------------------- what is above and beside the store
\* the client follows no script
NoScript == <<>>

\* a table that does not exist has no columns (PRAGMA table_info returns no row)
NoTable == {}

\* the path of the database holds no file
NoDbFile ==
    [exists |-> FALSE, corrupt |-> FALSE, journal |-> "delete",
     tables |-> [todo_lists |-> NoTable, todos |-> NoTable], index |-> FALSE,
     lists |-> {}, todos |-> <<>>]

\* no SQLite store is configured: no database file, no connection
NoDatabase == [file |-> NoDbFile, open |-> FALSE, calls |-> <<>>]

\* main() has not been called
NotStarted == [pc |-> "idle", base |-> 0, handlers |-> FALSE, cause |-> "", exit |-> [kind |-> "unstarted"]]

\* the ApiLogger as constructed (`logDirCreated = false`) in a working
\* directory without logs/: no line written, nothing on the diagnostic
\* stream, NODE_ENV not development, logToolCall not called
NoLog == [dirCreated |-> FALSE, dir |-> FALSE, lines |-> <<>>, diagnostics |-> <<>>,
          development |-> FALSE, calls |-> <<>>]

\* ------------------------------------------------------------ DataService
\* `private store: DataStore | null = null`: 0 stands for null, a store
\* instance is known by the number of its creation
NoStore == 0

\* the DataService singleton as constructed; made counts the stores the
\* factory has created, closed holds those whose close() has run, live is
\* history: a successful initialize() has completed and no close() has
\* completed since
NoService == [store |-> NoStore, made |-> 0, closed |-> {}, live |-> FALSE, ops |-> <<>>]

\* ------------------------------------------------------------------- Init
RECURSIVE AscSeq(_)
AscSeq(S) ==
    IF S = {} THEN <<>>
    ELSE LET m == CHOOSE x \in S : \A y \in S : x <= y
         IN  <<m>> \o AscSeq(S \ {m})

InitTodos(l, S) == [i \in 1..Cardinality(S) |-> Todo(l, AscSeq(S)[i], "t", "pending")]

\* the store after initialize(): every list file found was loaded into the
\* cache; a file holds todos sorted by seqno, each with its list's id
InitStore ==
    \E c \in SUBSET Lists :
    \E sel \in [Lists -> SUBSET Seqnos] :
        /\ \A l \in Lists \ c : sel[l] = {}
        /\ cache = c
        /\ files = [l \in Lists |-> IF l \in c THEN TodoListData(l, InitTodos(l, sel[l])) ELSE NoFile]
        /\ calls = <<>>
        /\ queue = <<>>
        /\ assigned = sel
        /\ reused = {}
        /\ tainted = {l \in c : sel[l] # 1..Cardinality(sel[l])}
        /\ exclusive = TRUE
        /\ start = [cache |-> cache, files |-> files]
        /\ tmp = [l \in Lists |-> NoFile]
        /\ lock = [l \in Lists |-> Free]
        /\ proc = [p \in Procs |-> [cache |-> cache, ops |-> 0, task |-> Idle, last |-> Idle]]

\* the JSON store is the configured one, nothing above it has run yet and
\* the client sends what it likes
Init ==
    /\ InitStore
    /\ service = NoService
    /\ tools = <<>>
    /\ client = NoScript
    /\ db = NoDatabase
    /\ main = NotStarted
    /\ log = NoLog

\* ---------------------------------------------------------------- actions
At(c, sop, pc) == calls[c].sop = sop /\ calls[c].pc = pc /\ MayRun(c)

\* history kept with a call: what its store operation found when it started
Snapshot(c) == [known |-> calls[c].listId \in cache, file |-> files[calls[c].listId]]

NoSnapshot == [known |-> FALSE, file |-> NoFile]

\* the operation returns or throws r; runExclusive releases the mutex
Finish(c, r) ==
    /\ calls' = [calls EXCEPT ![c].pc = "done", ![c].result = r,
                              ![c].held = @ /\ InsideMutex(c),
                              ![c].pre = IF calls[c].pc = "queued" THEN Snapshot(c) ELSE @]
    /\ queue' = Dequeue(queue, c)
    /\ exclusive' = (exclusive /\ OthersOutside(c))
    /\ start' = start
    /\ UNCHANGED diskVars
    /\ UNCHANGED serverVars

\* the operation suspends at an await, still inside runExclusive
Await(c, pc, data) ==
    /\ calls' = [calls EXCEPT ![c].pc = pc, ![c].data = data,
                              ![c].held = @ /\ InsideMutex(c),
                              ![c].pre = IF calls[c].pc = "queued" THEN Snapshot(c) ELSE @]
    /\ queue' = queue
    /\ exclusive' = (exclusive /\ OthersOutside(c))
    /\ start' = start
    /\ UNCHANGED diskVars
    /\ UNCHANGED serverVars

\* a caller invokes a store or service method: runExclusive queues on the mutex
IssueFrom(menu, budget) ==
    \E req \in menu :
        /\ Len(calls) < budget
        /\ calls' = Append(calls,
                      [op |-> req.op, sop |-> FirstStoreOp(req.op), listId |-> req.listId,
                       seqno |-> req.seqno, title |-> req.title, updates |-> req.updates,
                       pc |-> "queued", data |-> <<>>, svcTodos |-> <<>>, result |-> Pending,
                       before |-> DoneCalls, held |-> TRUE, pre |-> NoSnapshot])
        /\ queue' = Append(queue, Len(calls) + 1)
        /\ UNCHANGED <<cache, files, assigned, reused, tainted, exclusive, start, tmp, lock, proc>>
        /\ UNCHANGED serverVars

Issue == IssueFrom(Menu, MaxCalls)

\* close(): nothing to do, and no runExclusive
Close ==
    /\ Len(calls) < MaxCalls
    /\ calls' = Append(calls,
                  [op |-> "close", sop |-> "close", listId |-> "", seqno |-> 0, title |-> "",
                   updates |-> NoUpdates, pc |-> "done", data |-> <<>>, svcTodos |-> <<>>,
                   result |-> Void, before |-> DoneCalls, held |-> FALSE, pre |-> NoSnapshot])
    /\ UNCHANGED <<cache, files, queue, assigned, reused, tainted, exclusive, start, tmp, lock, proc>>
    /\ UNCHANGED serverVars

\* mutant: createTodoList without the duplicate check
CreateTodoListSaveNoDupCheck(c) ==
    /\ At(c, "createTodoList", "queued")
    /\ files' = SaveTodoListData(files, calls[c].listId, calls[c].listId, <<>>)
    /\ Await(c, "saved", <<>>)
    /\ UNCHANGED <<cache, assigned, reused, tainted>>

\* createTodoList up to `await this.saveTodoListData(...)`
CreateTodoListSave(c) ==
    /\ At(c, "createTodoList", "queued")
    /\ IF calls[c].listId \in cache
       THEN /\ Finish(c, ConstraintViolationException("UNIQUE"))
            /\ files' = files
       ELSE /\ files' = SaveTodoListData(files, calls[c].listId, calls[c].listId, <<>>)
            /\ Await(c, "saved", <<>>)
    /\ UNCHANGED <<cache, assigned, reused, tainted>>

\* createTodoList after the save: cache.set and return
CreateTodoListDone(c) ==
    /\ At(c, "createTodoList", "saved")
    /\ cache' = cache \cup {calls[c].listId}
    /\ Finish(c, ListValue(calls[c].listId))
    /\ UNCHANGED <<files, assigned, reused, tainted>>

\* getTodoList
GetTodoList(c) ==
    /\ At(c, "getTodoList", "queued")
    /\ Finish(c, IF calls[c].listId \in cache THEN ListValue(calls[c].listId) ELSE Undefined)
    /\ UNCHANGED <<cache, files, assigned, reused, tainted>>

\* updateTodoList: a TodoList has no field but its id, so this is a lookup
UpdateTodoList(c) ==
    /\ At(c, "updateTodoList", "queued")
    /\ Finish(c, IF calls[c].listId \in cache THEN ListValue(calls[c].listId) ELSE Undefined)
    /\ UNCHANGED <<cache, files, assigned, reused, tainted>>

\* mutant: deleteTodoList without the check that the list is in the cache
DeleteTodoListUnlinkNoCacheCheck(c) ==
    /\ At(c, "deleteTodoList", "queued")
    /\ files' = [files EXCEPT ![calls[c].listId] = NoFile]
    /\ Await(c, "unlinked", <<>>)
    /\ UNCHANGED <<cache, assigned, reused, tainted>>

\* deleteTodoList up to `await fs.unlink(filePath)` (ENOENT is swallowed)
DeleteTodoListUnlink(c) ==
    /\ At(c, "deleteTodoList", "queued")
    /\ IF calls[c].listId \notin cache
       THEN /\ Finish(c, Bool(FALSE))
            /\ files' = files
       ELSE /\ files' = [files EXCEPT ![calls[c].listId] = NoFile]
            /\ Await(c, "unlinked", <<>>)
    /\ UNCHANGED <<cache, assigned, reused, tainted>>

\* deleteTodoList after the unlink: cache.delete and return true
DeleteTodoListDone(c) ==
    /\ At(c, "deleteTodoList", "unlinked")
    /\ cache' = cache \ {calls[c].listId}
    /\ Finish(c, Bool(TRUE))
    /\ tainted' = tainted \cup {calls[c].listId}
    /\ assigned' = [assigned EXCEPT ![calls[c].listId] = {}]
    /\ UNCHANGED <<files, reused>>

\* mutant: createTodo without the check that the list is in the cache
CreateTodoLoadNoCacheCheck(c) ==
    /\ At(c, "createTodo", "queued")
    /\ LET r == LoadTodoListData(files, calls[c].listId)
       IN  IF IsThrow(r) THEN Finish(c, r)
           ELSE Await(c, "loaded", IF r.kind = "undefined" THEN <<>> ELSE r.data.todos)
    /\ UNCHANGED <<cache, files, assigned, reused, tainted>>

\* createTodo up to `await this.loadTodoListData(todo.listId)`
CreateTodoLoad(c) ==
    /\ At(c, "createTodo", "queued")
    /\ IF calls[c].listId \notin cache
       THEN Finish(c, ConstraintViolationException("FOREIGN_KEY"))
       ELSE LET r == LoadTodoListData(files, calls[c].listId)
            IN  IF IsThrow(r) THEN Finish(c, r)
                ELSE Await(c, "loaded", IF r.kind = "undefined" THEN <<>> ELSE r.data.todos)
    /\ UNCHANGED <<cache, files, assigned, reused, tainted>>

\* mutant: createTodo without the duplicate check
CreateTodoSaveNoDupCheck(c) ==
    /\ At(c, "createTodo", "loaded")
    /\ LET l == calls[c].listId
           s == calls[c].seqno
           todo == Todo(l, s, calls[c].title, "pending")
       IN  /\ files' = SaveTodoListData(files, l, CacheGet(cache, l), Append(calls[c].data, todo))
           /\ Finish(c, TodoValue(todo))
           /\ assigned' = [assigned EXCEPT ![l] = @ \cup {s}]
           /\ reused' = reused
           /\ tainted' = tainted
    /\ UNCHANGED cache

\* createTodo after the load: the duplicate check, push, save and return
CreateTodoSave(c) ==
    /\ At(c, "createTodo", "loaded")
    /\ LET l == calls[c].listId
           s == calls[c].seqno
           todo == Todo(l, s, calls[c].title, "pending")
       IN  IF s \in SeqnosOf(calls[c].data)
           THEN /\ Finish(c, ConstraintViolationException("UNIQUE"))
                /\ UNCHANGED <<files, assigned, reused, tainted>>
           ELSE /\ files' = SaveTodoListData(files, l, CacheGet(cache, l), Append(calls[c].data, todo))
                /\ Finish(c, TodoValue(todo))
                /\ assigned' = [assigned EXCEPT ![l] = @ \cup {s}]
                /\ reused' = IF calls[c].op = "svc.createTodo" /\ s \in assigned[l]
                             THEN reused \cup {<<l, s>>} ELSE reused
                /\ tainted' = IF calls[c].op = "svc.createTodo" THEN tainted ELSE tainted \cup {l}
    /\ UNCHANGED cache

\* getTodo
GetTodo(c) ==
    /\ At(c, "getTodo", "queued")
    /\ LET r == LoadTodoListData(files, calls[c].listId)
           i == FindIndex(r.data.todos, calls[c].seqno)
       IN  IF IsThrow(r) THEN Finish(c, r)
           ELSE IF r.kind = "undefined" THEN Finish(c, Undefined)
           ELSE IF i = 0 THEN Finish(c, Undefined)
           ELSE Finish(c, TodoValue(r.data.todos[i]))
    /\ UNCHANGED <<cache, files, assigned, reused, tainted>>

\* getTodosByListId; for TodoService.createTodo it is the read of
\* `const todos = await store.getTodosByListId(data.listId)`
GetTodosByListId(c) ==
    /\ At(c, "getTodosByListId", "queued")
    /\ LET r == LoadTodoListData(files, calls[c].listId)
           todos == IF r.kind = "undefined" THEN <<>> ELSE SortBySeqno(r.data.todos)
       IN  IF IsThrow(r) THEN Finish(c, r)
           ELSE IF calls[c].op = "svc.createTodo"
                THEN /\ calls' = [calls EXCEPT ![c].pc = "svcGot", ![c].svcTodos = todos,
                                               ![c].held = @ /\ InsideMutex(c),
                                               ![c].pre = Snapshot(c)]
                     /\ queue' = Dequeue(queue, c)
                     /\ exclusive' = (exclusive /\ OthersOutside(c))
                     /\ start' = start
                     /\ UNCHANGED diskVars
                     /\ UNCHANGED serverVars
                ELSE Finish(c, TodosValue(todos))
    /\ UNCHANGED <<cache, files, assigned, reused, tainted>>

\* TodoService.createTodo after the read: seqno = max + 1, then store.createTodo
SvcCreateTodoContinue(c) ==
    /\ calls[c].op = "svc.createTodo"
    /\ calls[c].pc = "svcGot"
    /\ calls' = [calls EXCEPT ![c].seqno = NewSeqno(calls[c].svcTodos),
                              ![c].sop = "createTodo", ![c].pc = "queued"]
    /\ queue' = Append(queue, c)
    /\ UNCHANGED <<cache, files, assigned, reused, tainted, exclusive, start, tmp, lock, proc>>
    /\ UNCHANGED serverVars

\* updateTodo up to `await this.saveTodoListData(...)`: load, findIndex
UpdateTodoLoad(c) ==
    /\ At(c, "updateTodo", "queued")
    /\ LET r == LoadTodoListData(files, calls[c].listId)
       IN  IF IsThrow(r) THEN Finish(c, r)
           ELSE IF r.kind = "undefined" THEN Finish(c, Undefined)
           ELSE IF FindIndex(r.data.todos, calls[c].seqno) = 0 THEN Finish(c, Undefined)
           ELSE Await(c, "loaded", r.data.todos)
    /\ UNCHANGED <<cache, files, assigned, reused, tainted>>

\* updateTodo: the merged todo replaces the old one, the file is rewritten
UpdateTodoSave(c) ==
    /\ At(c, "updateTodo", "loaded")
    /\ LET l == calls[c].listId
           i == FindIndex(calls[c].data, calls[c].seqno)
           updated == Merge(calls[c].data[i], calls[c].updates)
       IN  /\ files' = SaveTodoListData(files, l, CacheGet(cache, l), [calls[c].data EXCEPT ![i] = updated])
           /\ Finish(c, TodoValue(updated))
    /\ UNCHANGED <<cache, assigned, reused, tainted>>

\* deleteTodo up to the save: load, filter, wasDeleted
DeleteTodoLoad(c) ==
    /\ At(c, "deleteTodo", "queued")
    /\ LET r == LoadTodoListData(files, calls[c].listId)
       IN  IF IsThrow(r) THEN Finish(c, r)
           ELSE IF r.kind = "undefined" THEN Finish(c, Bool(FALSE))
           ELSE IF Len(FilterOut(r.data.todos, calls[c].seqno)) < Len(r.data.todos)
                THEN Await(c, "loaded", FilterOut(r.data.todos, calls[c].seqno))
                ELSE Finish(c, Bool(FALSE))
    /\ UNCHANGED <<cache, files, assigned, reused, tainted>>

\* deleteTodo: the filtered todos are written back, returns true
DeleteTodoSave(c) ==
    /\ At(c, "deleteTodo", "loaded")
    /\ LET l == calls[c].listId
       IN  /\ files' = SaveTodoListData(files, l, CacheGet(cache, l), calls[c].data)
           /\ tainted' = tainted \cup {l}
    /\ Finish(c, Bool(TRUE))
    /\ UNCHANGED <<cache, assigned, reused>>

\* the event loop resumes an operation whose await has settled
AnyStep ==
    \/ \E c \in DOMAIN calls : CreateTodoListSave(c)
    \/ \E c \in DOMAIN calls : CreateTodoListDone(c)
    \/ \E c \in DOMAIN calls : GetTodoList(c)
    \/ \E c \in DOMAIN calls : UpdateTodoList(c)
    \/ \E c \in DOMAIN calls : DeleteTodoListUnlink(c)
    \/ \E c \in DOMAIN calls : DeleteTodoListDone(c)
    \/ \E c \in DOMAIN calls : CreateTodoLoad(c)
    \/ \E c \in DOMAIN calls : CreateTodoSave(c)
    \/ \E c \in DOMAIN calls : GetTodo(c)
    \/ \E c \in DOMAIN calls : GetTodosByListId(c)
    \/ \E c \in DOMAIN calls : SvcCreateTodoContinue(c)
    \/ \E c \in DOMAIN calls : UpdateTodoLoad(c)
    \/ \E c \in DOMAIN calls : UpdateTodoSave(c)
    \/ \E c \in DOMAIN calls : DeleteTodoLoad(c)
    \/ \E c \in DOMAIN calls : DeleteTodoSave(c)

Next ==
    \/ Issue
    \/ Close
    \/ AnyStep

Spec == Init /\ [][Next]_vars

\* ------------------------------------------------- calls on a single list
\* the list the calls work on
TheList == "L1"

\* every call of the menu that names this list, with status updates only
OneListMenu ==
    {req \in Menu : req.listId = TheList /\ req.updates.title = Absent}

\* no other list has a file
InitOneList == Init /\ cache \subseteq {TheList}

IssueOneList == IssueFrom(OneListMenu, MaxCalls)

NextOneList ==
    \/ IssueOneList
    \/ Close
    \/ AnyStep

SpecOneList == InitOneList /\ [][NextOneList]_vars

\* ------------------------------------------- concurrent calls on one list

\* the todo-level store calls of the concurrency tests; the creations all
\* target one seqno, the last one
ContentionMenu ==
    { Request("deleteTodo", TheList, s, "", NoUpdates) : s \in Seqnos }
    \cup { Request("getTodosByListId", TheList, 0, "", NoUpdates) }
    \cup { Request("createTodo", TheList, MaxSeqno, "t", NoUpdates) }
    \cup { Request("updateTodo", TheList, s, "", u) :
             s \in Seqnos, u \in {x \in UpdatesMenu : x.title = Absent} }

\* the list exists when the calls are issued and holds the todos 1..n that
\* the tests' setup created through the service
InitContention ==
    /\ Init
    /\ cache = {TheList}
    /\ SeqnosOf(files[TheList].todos) = 1..Len(files[TheList].todos)

\* Promise.all([...store calls...]): every call is issued before the first
\* of them has completed
IssueTogether ==
    /\ DoneCalls = {}
    /\ IssueFrom(ContentionMenu, MaxContenders)

\* the event loop resumes the store operation whose await has settled
StoreStep ==
    \/ \E c \in DOMAIN calls : CreateTodoLoad(c)
    \/ \E c \in DOMAIN calls : CreateTodoSave(c)
    \/ \E c \in DOMAIN calls : GetTodosByListId(c)
    \/ \E c \in DOMAIN calls : UpdateTodoLoad(c)
    \/ \E c \in DOMAIN calls : UpdateTodoSave(c)
    \/ \E c \in DOMAIN calls : DeleteTodoLoad(c)
    \/ \E c \in DOMAIN calls : DeleteTodoSave(c)

NextContention ==
    \/ IssueTogether
    \/ StoreStep

SpecContention == InitContention /\ [][NextContention]_vars

\* what a store call does to the files when it runs with no other call in
\* flight: the handler's load, decision and save in one piece
RunAlone(req, fs, known) ==
    LET l == req.listId
        r == LoadTodoListData(fs, l)
        todos == IF r.kind = "undefined" THEN <<>> ELSE r.data.todos
        i == FindIndex(todos, req.seqno)
    IN  IF req.op = "createTodo"
        THEN IF l \notin known \/ IsThrow(r) \/ req.seqno \in SeqnosOf(todos) THEN fs
             ELSE SaveTodoListData(fs, l, CacheGet(known, l),
                                   Append(todos, Todo(l, req.seqno, req.title, "pending")))
        ELSE IF req.op = "updateTodo"
        THEN IF IsThrow(r) \/ r.kind = "undefined" \/ i = 0 THEN fs
             ELSE SaveTodoListData(fs, l, CacheGet(known, l),
                                   [todos EXCEPT ![i] = Merge(todos[i], req.updates)])
        ELSE IF req.op = "deleteTodo"
        THEN IF IsThrow(r) \/ r.kind = "undefined" \/ i = 0 THEN fs
             ELSE SaveTodoListData(fs, l, CacheGet(known, l), FilterOut(todos, req.seqno))
        ELSE fs

\* the files after the calls ran one after the other in the given order
RECURSIVE RunInOrder(_, _, _)
RunInOrder(order, fs, known) ==
    IF order = <<>> THEN fs
    ELSE RunInOrder(Tail(order), RunAlone(calls[Head(order)], fs, known), known)

\* every order of the calls issued
Orders == {o \in [DOMAIN calls -> DOMAIN calls] : \A c \in DOMAIN calls : \E i \in DOMAIN calls : o[i] = c}

AllDone == calls # <<>> /\ DoneCalls = DOMAIN calls

\* -------------------------------- concurrent creations with distinct seqnos
\* Array.from({ length: 5 }, ...): the number of creations issued together
ConcurrentCreates == 5

\* the seqnos of the creations already issued
IssuedSeqnos == {calls[c].seqno : c \in {d \in DOMAIN calls : calls[d].op = "createTodo"}}

\* store.createTodo(todo) for seqnos 1..5, each once, in any order, all
\* issued before the first has completed
IssueDistinctCreate ==
    /\ DoneCalls = {}
    /\ IssueFrom({Request("createTodo", TheList, s, "t", NoUpdates) :
                    s \in (1..ConcurrentCreates) \ IssuedSeqnos},
                 ConcurrentCreates)

\* store.getTodosByListId(todoList.id) after `await Promise.all(todoPromises)`
IssueFetchAfterAll ==
    /\ Len(calls) = ConcurrentCreates
    /\ DoneCalls = DOMAIN calls
    /\ IssueFrom({Request("getTodosByListId", TheList, 0, "", NoUpdates)}, ConcurrentCreates + 1)

NextDistinctCreates ==
    \/ IssueDistinctCreate
    \/ IssueFetchAfterAll
    \/ \E c \in DOMAIN calls : CreateTodoLoad(c)
    \/ \E c \in DOMAIN calls : CreateTodoSave(c)
    \/ \E c \in DOMAIN calls : GetTodosByListId(c)

\* the list exists; it is empty, as in the test, or holds todos already
InitDistinctCreates == Init /\ cache = {TheList}

SpecDistinctCreates == InitDistinctCreates /\ [][NextDistinctCreates]_vars

\* ------------------------------------------------------ updates of todos
\* TodoService.updateTodo({ listId, seqno, status }) for every status, and
\* the store's updateTodo with the updates callers pass to it
UpdateMenu ==
    { Request("svc.updateTodo", TheList, s, "", [title |-> Absent, status |-> st]) :
        s \in Seqnos, st \in Statuses }
    \cup { Request("updateTodo", TheList, s, "", u) : s \in Seqnos, u \in UpdatesMenu }

IssueUpdate == IssueFrom(UpdateMenu, MaxCalls)

NextUpdates ==
    \/ IssueUpdate
    \/ \E c \in DOMAIN calls : UpdateTodoLoad(c)
    \/ \E c \in DOMAIN calls : UpdateTodoSave(c)

\* every list that exists holds the todos 1..n, all pending
InitUpdates ==
    /\ Init
    /\ \A l \in cache : SeqnosOf(files[l].todos) = 1..Len(files[l].todos)

SpecUpdates == InitUpdates /\ [][NextUpdates]_vars

\* ------------------------------------ store operations as file-system calls
\* Two processes share the directory. Inside a process the mutex runs one
\* store operation at a time; each operation is a sequence of file-system
\* calls, and the calls of the two processes interleave.

\* store operations the processes run in one behaviour, all together
MaxDiskOps == 2

\* lockfile.lock(filePath, { retries: { retries, factor, minTimeout, maxTimeout } })
LockRetries == 5
Factor == 2
MinTimeout == 100
MaxTimeout == 1000

\* a file that was created or truncated and not yet written
EmptyFile == [exists |-> TRUE, text |-> ""]
\* the file after fs.writeFile(filePath, '{}', 'utf-8')
PlaceholderFile == [exists |-> TRUE, text |-> "{}"]

\* the content is a whole TodoListData document
IsDocument(f) == f.exists /\ "todos" \in DOMAIN f

RECURSIVE Power(_, _)
Power(b, e) == IF e = 0 THEN 1 ELSE b * Power(b, e - 1)

\* the wait before retry number i + 1 (retry: createTimeout(i, opts)):
\* Math.min(Math.max(minTimeout, 1) * Math.pow(factor, i), maxTimeout)
Timeout(i) ==
    LET t == MinTimeout * Power(Factor, i)
    IN  IF t < MaxTimeout THEN t ELSE MaxTimeout

\* mutant: a failed acquisition is retried without limit
MayRetryForever(tries) == TRUE

\* operation.retry(err): another attempt is made while fewer than
\* `retries` retries have been made
MayRetry(tries) == tries < LockRetries

TypeError == Exception("TypeError", "", "")
SyntaxError == Exception("SyntaxError", "", "")

\* what the processes may ask of their store
DiskMenu ==
    { Request(op, TheList, 0, "", NoUpdates) : op \in {"createTodoList", "deleteTodoList", "getTodosByListId"} }
    \cup { Request("createTodo", TheList, s, "t", NoUpdates) : s \in Seqnos }
    \cup { Request("updateTodo", TheList, s, "", [title |-> Absent, status |-> "completed"]) : s \in Seqnos }

\* the operation of process p in progress
Task(p) == proc[p].task

RECURSIVE SumOps(_)
SumOps(P) == IF P = {} THEN 0 ELSE LET p == CHOOSE q \in P : TRUE IN proc[p].ops + SumOps(P \ {p})

\* the operations begun so far
OpsBegun == SumOps(Procs)

Busy(p) == Task(p) # Idle

\* a new operation at the given position
NewTask(req, pc, phase, todos) ==
    [op |-> req.op, listId |-> req.listId, seqno |-> req.seqno, title |-> req.title,
     updates |-> req.updates, pc |-> pc, phase |-> phase, tries |-> 0, waits |-> <<>>,
     buf |-> NoFile, todos |-> todos, err |-> FALSE, value |-> Void]

\* the operation of p returns or throws r; lockFailed: its last lock
\* acquisition gave up after its retries
Settle(p, t, r, lockFailed) ==
    [proc EXCEPT ![p].task = Idle,
                 ![p].last = [op |-> t.op, listId |-> t.listId, phase |-> t.phase, waits |-> t.waits,
                              result |-> r, lockFailed |-> lockFailed]]

\* loadTodoListData rethrows what withFileLock threw; saveTodoListData
\* wraps it into FileOperationException(..., 'WRITE', ...)
Rethrown(phase) == IF phase = "load" THEN FileOperationException("LOCK") ELSE FileOperationException("WRITE")

\* a process starts a store operation: the mutex is free, the checks
\* against the cache run, and the operation reaches its first file-system call
DiskBegin(p) ==
    \E req \in DiskMenu :
        /\ ~Busy(p)
        /\ OpsBegun < MaxDiskOps
        /\ OpsBegun = 0 => p = FirstProc
        /\ LET known == req.listId \in proc[p].cache
               opened == [proc EXCEPT ![p].ops = @ + 1]
           IN  proc' =
                 IF req.op = "createTodoList"
                 THEN IF known
                      THEN Settle(p, NewTask(req, "done", "none", <<>>), ConstraintViolationException("UNIQUE"), FALSE)
                      ELSE [opened EXCEPT ![p].task = NewTask(req, "access", "save", <<>>)]
                 ELSE IF req.op = "deleteTodoList"
                 THEN IF known
                      THEN [opened EXCEPT ![p].task = NewTask(req, "unlink", "none", <<>>)]
                      ELSE Settle(p, NewTask(req, "done", "none", <<>>), Bool(FALSE), FALSE)
                 ELSE IF req.op = "createTodo" /\ ~known
                 THEN Settle(p, NewTask(req, "done", "none", <<>>), ConstraintViolationException("FOREIGN_KEY"), FALSE)
                 ELSE [opened EXCEPT ![p].task = NewTask(req, "lock", "load", <<>>)]
        /\ UNCHANGED <<cache, files, calls, queue, assigned, reused, tainted, exclusive, start, tmp, lock>>
        /\ UNCHANGED serverVars

\* lockfile.lock: the path is resolved first; a missing file is ENOENT and
\* is not retried. withFileLock turns it into FileOperationException LOCK
LockNoFile(p) ==
    /\ Busy(p)
    /\ Task(p).pc = "lock"
    /\ Task(p).tries = 0
    /\ ~files[Task(p).listId].exists
    /\ proc' = Settle(p, Task(p), Rethrown(Task(p).phase), FALSE)
    /\ UNCHANGED <<cache, files, calls, queue, assigned, reused, tainted, exclusive, start, tmp, lock>>
    /\ UNCHANGED serverVars

\* lockfile.lock: the lock is free and is taken (mkdir <file>.lock)
LockAcquire(p) ==
    /\ Busy(p)
    /\ Task(p).pc = "lock"
    /\ Task(p).tries > 0 \/ files[Task(p).listId].exists
    /\ lock[Task(p).listId] = Free
    /\ lock' = [lock EXCEPT ![Task(p).listId] = p]
    /\ proc' = [proc EXCEPT ![p].task.pc = IF Task(p).phase = "load" THEN "read" ELSE "tmp",
                            ![p].task.tries = 0, ![p].task.waits = <<>>]
    /\ UNCHANGED <<cache, files, calls, queue, assigned, reused, tainted, exclusive, start, tmp>>
    /\ UNCHANGED serverVars

\* lockfile.lock: the lock is held (ELOCKED); wait and try again
LockRetry(p) ==
    /\ Busy(p)
    /\ Task(p).pc = "lock"
    /\ Task(p).tries > 0 \/ files[Task(p).listId].exists
    /\ lock[Task(p).listId] # Free
    /\ MayRetry(Task(p).tries)
    /\ proc' = [proc EXCEPT ![p].task.tries = @ + 1,
                            ![p].task.waits = Append(@, Timeout(Task(p).tries))]
    /\ UNCHANGED <<cache, files, calls, queue, assigned, reused, tainted, exclusive, start, tmp, lock>>
    /\ UNCHANGED serverVars

\* lockfile.lock: the lock is still held after the last retry; the error
\* leaves withFileLock as FileOperationException LOCK
LockGiveUp(p) ==
    /\ Busy(p)
    /\ Task(p).pc = "lock"
    /\ Task(p).tries > 0 \/ files[Task(p).listId].exists
    /\ lock[Task(p).listId] # Free
    /\ ~MayRetry(Task(p).tries)
    /\ proc' = Settle(p, Task(p), Rethrown(Task(p).phase), TRUE)
    /\ UNCHANGED <<cache, files, calls, queue, assigned, reused, tainted, exclusive, start, tmp, lock>>
    /\ UNCHANGED serverVars

\* loadTodoListData: fs.readFile(filePath, 'utf-8') under the lock
ReadUnderLock(p) ==
    /\ Busy(p)
    /\ Task(p).pc = "read"
    /\ proc' = [proc EXCEPT ![p].task.pc = "release",
                            ![p].task.buf = files[Task(p).listId],
                            ![p].task.err = ~files[Task(p).listId].exists]
    /\ UNCHANGED <<cache, files, calls, queue, assigned, reused, tainted, exclusive, start, tmp, lock>>
    /\ UNCHANGED serverVars

\* what the operation does with the parsed content: it returns r, or
\* goes on to save the given todos
Returns(r) == [save |-> FALSE, result |-> r, todos |-> <<>>]
Saves(todos, r) == [save |-> TRUE, result |-> r, todos |-> todos]

\* JSON.parse(content) and the rest of the operation up to its save
AfterLoad(t, known) ==
    LET todos == t.buf.todos
        i == FindIndex(todos, t.seqno)
    IN  IF t.err THEN Returns(FileOperationException("LOCK"))
        ELSE IF ~IsDocument(t.buf)
        THEN IF t.buf = EmptyFile THEN Returns(SyntaxError)
             ELSE IF t.op = "createTodo"
                  THEN Saves(<<Todo(t.listId, t.seqno, t.title, "pending")>>,
                             TodoValue(Todo(t.listId, t.seqno, t.title, "pending")))
                  ELSE Returns(TypeError)
        ELSE IF t.op = "getTodosByListId" THEN Returns(TodosValue(SortBySeqno(todos)))
        ELSE IF t.op = "createTodo"
        THEN IF t.seqno \in SeqnosOf(todos) THEN Returns(ConstraintViolationException("UNIQUE"))
             ELSE Saves(Append(todos, Todo(t.listId, t.seqno, t.title, "pending")),
                        TodoValue(Todo(t.listId, t.seqno, t.title, "pending")))
        ELSE IF t.op = "updateTodo"
        THEN IF i = 0 THEN Returns(Undefined)
             ELSE Saves([todos EXCEPT ![i] = Merge(todos[i], t.updates)],
                        TodoValue(Merge(todos[i], t.updates)))
        ELSE Returns(TypeError)

\* withFileLock: `finally { await release() }` after the read, then
\* JSON.parse and the operation's own code up to its save
ReleaseAfterRead(p) ==
    /\ Busy(p)
    /\ Task(p).pc = "release"
    /\ Task(p).phase = "load"
    /\ lock' = [lock EXCEPT ![Task(p).listId] = Free]
    /\ LET next == AfterLoad(Task(p), Task(p).listId \in proc[p].cache)
       IN  proc' = IF next.save
                   THEN [proc EXCEPT ![p].task.pc = "access", ![p].task.phase = "save",
                                     ![p].task.todos = next.todos, ![p].task.value = next.result]
                   ELSE Settle(p, Task(p), next.result, FALSE)
    /\ UNCHANGED <<cache, files, calls, queue, assigned, reused, tainted, exclusive, start, tmp>>
    /\ UNCHANGED serverVars

\* saveTodoListData: `await fs.access(filePath)` finds the file
AccessFound(p) ==
    /\ Busy(p)
    /\ Task(p).pc = "access"
    /\ files[Task(p).listId].exists
    /\ proc' = [proc EXCEPT ![p].task.pc = "lock"]
    /\ UNCHANGED <<cache, files, calls, queue, assigned, reused, tainted, exclusive, start, tmp, lock>>
    /\ UNCHANGED serverVars

\* saveTodoListData: `await fs.access(filePath)` throws, the file is missing
AccessMissing(p) ==
    /\ Busy(p)
    /\ Task(p).pc = "access"
    /\ ~files[Task(p).listId].exists
    /\ proc' = [proc EXCEPT ![p].task.pc = "create"]
    /\ UNCHANGED <<cache, files, calls, queue, assigned, reused, tainted, exclusive, start, tmp, lock>>
    /\ UNCHANGED serverVars

\* fs.writeFile(filePath, '{}'): the file is opened with flag 'w', which
\* creates it or truncates what is there
OpenTruncate(p) ==
    /\ Busy(p)
    /\ Task(p).pc = "create"
    /\ files' = [files EXCEPT ![Task(p).listId] = EmptyFile]
    /\ proc' = [proc EXCEPT ![p].task.pc = "fill"]
    /\ UNCHANGED <<cache, calls, queue, assigned, reused, tainted, exclusive, start, tmp, lock>>
    /\ UNCHANGED serverVars

\* fs.writeFile(filePath, '{}'): the two characters are written. The
\* descriptor writes at offset 0 of whatever file it opened.
WritePlaceholder(p) ==
    /\ Busy(p)
    /\ Task(p).pc = "fill"
    /\ files' = IF files[Task(p).listId] = EmptyFile
                THEN [files EXCEPT ![Task(p).listId] = PlaceholderFile]
                ELSE files
    /\ proc' = [proc EXCEPT ![p].task.pc = "lock"]
    /\ UNCHANGED <<cache, calls, queue, assigned, reused, tainted, exclusive, start, tmp, lock>>
    /\ UNCHANGED serverVars

\* saveTodoListData under the lock: fs.writeFile(tempPath, dataString)
WriteTmp(p) ==
    /\ Busy(p)
    /\ Task(p).pc = "tmp"
    /\ tmp' = [tmp EXCEPT ![Task(p).listId] =
                  TodoListData(IF Task(p).op = "createTodoList" THEN Task(p).listId
                               ELSE CacheGet(proc[p].cache, Task(p).listId),
                               SortBySeqno(Task(p).todos))]
    /\ proc' = [proc EXCEPT ![p].task.pc = "rename"]
    /\ UNCHANGED <<cache, files, calls, queue, assigned, reused, tainted, exclusive, start, lock>>
    /\ UNCHANGED serverVars

\* saveTodoListData under the lock: fs.rename(tempPath, filePath)
RenameTmp(p) ==
    /\ Busy(p)
    /\ Task(p).pc = "rename"
    /\ files' = [files EXCEPT ![Task(p).listId] = tmp[Task(p).listId]]
    /\ tmp' = [tmp EXCEPT ![Task(p).listId] = NoFile]
    /\ proc' = [proc EXCEPT ![p].task.pc = "release"]
    /\ UNCHANGED <<cache, calls, queue, assigned, reused, tainted, exclusive, start, lock>>
    /\ UNCHANGED serverVars

\* withFileLock: `finally { await release() }` after the write, then the
\* operation's code after its save
ReleaseAfterWrite(p) ==
    /\ Busy(p)
    /\ Task(p).pc = "release"
    /\ Task(p).phase = "save"
    /\ lock' = [lock EXCEPT ![Task(p).listId] = Free]
    /\ proc' = IF Task(p).op = "createTodoList"
               THEN [Settle(p, Task(p), ListValue(Task(p).listId), FALSE)
                        EXCEPT ![p].cache = @ \cup {Task(p).listId}]
               ELSE Settle(p, Task(p), Task(p).value, FALSE)
    /\ UNCHANGED <<cache, files, calls, queue, assigned, reused, tainted, exclusive, start, tmp>>
    /\ UNCHANGED serverVars

\* deleteTodoList: fs.unlink(filePath) (ENOENT is swallowed), cache.delete
UnlinkFile(p) ==
    /\ Busy(p)
    /\ Task(p).pc = "unlink"
    /\ files' = [files EXCEPT ![Task(p).listId] = NoFile]
    /\ proc' = [Settle(p, Task(p), Bool(TRUE), FALSE) EXCEPT ![p].cache = @ \ {Task(p).listId}]
    /\ UNCHANGED <<cache, calls, queue, assigned, reused, tainted, exclusive, start, tmp, lock>>
    /\ UNCHANGED serverVars

\* one file-system call of one process
DiskStep ==
    \/ \E p \in Procs : LockNoFile(p)
    \/ \E p \in Procs : LockAcquire(p)
    \/ \E p \in Procs : LockRetry(p)
    \/ \E p \in Procs : LockGiveUp(p)
    \/ \E p \in Procs : ReadUnderLock(p)
    \/ \E p \in Procs : ReleaseAfterRead(p)
    \/ \E p \in Procs : AccessFound(p)
    \/ \E p \in Procs : AccessMissing(p)
    \/ \E p \in Procs : OpenTruncate(p)
    \/ \E p \in Procs : WritePlaceholder(p)
    \/ \E p \in Procs : WriteTmp(p)
    \/ \E p \in Procs : RenameTmp(p)
    \/ \E p \in Procs : ReleaseAfterWrite(p)
    \/ \E p \in Procs : UnlinkFile(p)

NextDisk ==
    \/ \E p \in Procs : DiskBegin(p)
    \/ DiskStep

\* both processes were initialized from the same directory; the list, if
\* it exists, holds the todos 1..n
InitDisk ==
    /\ Init
    /\ cache \subseteq {TheList}
    /\ TheList \in cache => SeqnosOf(files[TheList].todos) = 1..Len(files[TheList].todos)

SpecDisk == InitDisk /\ [][NextDisk]_vars

\* ------------------------------------------- the DataService and its callers
\* what getStore() hands out: the retained store instance
Backend(store) == [kind |-> "backend", store |-> store]

\* throw new Error('DataService not initialized. Call initialize() first.')
NotInitialized == Exception("Error", "", "DataService not initialized. Call initialize() first.")

\* what validateConfig, ensureDataFolder, DataStoreFactory.create or the
\* store's initialize() throw
InitializeFailed == Exception("Error", "", "initialize failed")

ServiceOp(op, pc, result) == [op |-> op, pc |-> pc, result |-> result]

ServiceBudget == Len(service.ops) < MaxServiceCalls

\* mutant: close() closes the store and keeps the reference
ClearedStoreKept(store) == store

\* `this.store = null`
ClearedStore(store) == NoStore

\* initialize(), up to `await DataStoreFactory.create(...)`; validateConfig
\* and ensureDataFolder run at once and may throw
DataServiceInitialize ==
    /\ ServiceBudget
    /\ \E ok \in BOOLEAN :
         service' = [service EXCEPT !.ops = Append(@,
                        IF ok THEN ServiceOp("initialize", "creating", Pending)
                        ELSE ServiceOp("initialize", "done", InitializeFailed))]
    /\ UNCHANGED <<storeVars, diskVars, besideService>>

\* initialize() after the await: the factory made and initialized a store,
\* which is retained, or it threw and this.store is left as it was
DataServiceInitializeDone(i) ==
    /\ service.ops[i].op = "initialize" /\ service.ops[i].pc = "creating"
    /\ \E ok \in BOOLEAN :
         service' = IF ok
                    THEN [service EXCEPT !.ops[i] = ServiceOp("initialize", "done", Void),
                                         !.made = @ + 1,
                                         !.store = service.made + 1,
                                         !.live = TRUE]
                    ELSE [service EXCEPT !.ops[i] = ServiceOp("initialize", "done", InitializeFailed)]
    /\ UNCHANGED <<storeVars, diskVars, besideService>>

\* getStore()
DataServiceGetStore ==
    /\ ServiceBudget
    /\ service' = [service EXCEPT !.ops = Append(@,
                      ServiceOp("getStore", "done",
                                IF service.store = NoStore THEN NotInitialized
                                ELSE Backend(service.store)))]
    /\ UNCHANGED <<storeVars, diskVars, besideService>>

\* close(), up to `await this.store.close()`: with no store it returns at
\* once, otherwise the store's close() has run when the await suspends
DataServiceClose ==
    /\ ServiceBudget
    /\ service' = IF service.store = NoStore
                  THEN [service EXCEPT !.ops = Append(@, ServiceOp("close", "done", Void)),
                                       !.live = FALSE]
                  ELSE [service EXCEPT !.ops = Append(@, ServiceOp("close", "closing", Pending)),
                                       !.closed = @ \cup {service.store}]
    /\ UNCHANGED <<storeVars, diskVars, besideService>>

\* close() after the await: the reference is cleared
DataServiceCloseDone(i) ==
    /\ service.ops[i].op = "close" /\ service.ops[i].pc = "closing"
    /\ service' = [service EXCEPT !.ops[i] = ServiceOp("close", "done", Void),
                                  !.store = ClearedStore(service.store),
                                  !.live = FALSE]
    /\ UNCHANGED <<storeVars, diskVars, besideService>>

NextService ==
    \/ DataServiceInitialize
    \/ \E i \in DOMAIN service.ops : DataServiceInitializeDone(i)
    \/ DataServiceGetStore
    \/ DataServiceClose
    \/ \E i \in DOMAIN service.ops : DataServiceCloseDone(i)

\* the module was just loaded: `export const dataService = new DataService()`
InitService == Init /\ cache = {} 

SpecService == InitService /\ [][NextService]_vars

\* ------------------------------------------------ formatters (pure functions)
\* values of the tool layer: strings (the pieces they were built from),
\* booleans and plain objects
Str(parts) == [kind |-> "string", parts |-> parts]
JsBool(b) == [kind |-> "boolean", value |-> b]
\* an Error object that safeExecute returns as a value
JsError(message) == [kind |-> "error", message |-> message]

\* `${value}` in a template literal: a string is copied, an object is
\* rendered by Object.prototype.toString
ObjectObject == "[object Object]"
Interpolate(v) == IF v.kind = "string" THEN v.parts ELSE <<ObjectObject>>
Template(prefix, v, suffix) == Str(<<prefix>> \o Interpolate(v) \o suffix)

formatTodo(todo) ==
    [kind |-> "object", listId |-> todo.listId, seqno |-> todo.seqno,
     title |-> todo.title, status |-> todo.status]

formatTodoList(todos) ==
    IF Len(todos) = 0
    THEN [kind |-> "object", todos |-> <<>>, count |-> 0]
    ELSE [kind |-> "object", listId |-> todos[1].listId,
          todos |-> [i \in DOMAIN todos |->
                       [seqno |-> todos[i].seqno, title |-> todos[i].title, status |-> todos[i].status]],
          count |-> Len(todos)]

formatTodoListInfo(todoList) == [kind |-> "object", id |-> todoList.id]

\* JSON.stringify of an object given as its <<key, value>> pairs: a key
\* whose value is undefined is left out
JsonStringify(pairs) == [json |-> SelectSeq(pairs, LAMBDA p : p[2].kind # "undefined")]

\* JSON.parse, and the lookup of a key in the parsed object
JsonParse(text) == text.json
HasKey(pairs, key) == \E i \in DOMAIN pairs : pairs[i][1] = key
Field(pairs, key) == pairs[CHOOSE i \in DOMAIN pairs : pairs[i][1] = key][2]

DefaultMessage == Str(<<"Operation completed successfully">>)

\* mutant: the success envelope also carries the error flag
createSuccessResponseFlagged(data, message) ==
    [content |-> << [type |-> "text",
                     text |-> JsonStringify(<< <<"success", JsBool(TRUE)>>,
                                               <<"message", IF message.kind = "undefined" THEN DefaultMessage ELSE message>>,
                                               <<"data", data>> >>)] >>,
     isError |-> TRUE]

createSuccessResponse(data, message) ==
    [content |-> << [type |-> "text",
                     text |-> JsonStringify(<< <<"success", JsBool(TRUE)>>,
                                               <<"message", IF message.kind = "undefined" THEN DefaultMessage ELSE message>>,
                                               <<"data", data>> >>)] >>]

\* mutant: the error envelope without the error flag
createErrorResponseUnflagged(message) ==
    [content |-> << [type |-> "text",
                     text |-> JsonStringify(<< <<"success", JsBool(FALSE)>>,
                                               <<"error", message>> >>)] >>]

createErrorResponse(message) ==
    [content |-> << [type |-> "text",
                     text |-> JsonStringify(<< <<"success", JsBool(FALSE)>>,
                                               <<"error", message>> >>)] >>,
     isError |-> TRUE]

\* --------------------------------------------------------- the tool layer
\* the statuses the get-todos and update-todo tools declare
ToolStatuses == {"pending", "done", "canceled"}
\* the status filters a client sends to get-todos: none, one that todos
\* have, one that only the tool's schema knows
FilterStatuses == {Absent, "pending", "done"}
\* the statuses a client sends to update-todo: one the tool and the model
\* know, one only the tool knows, one only the model knows
UpdateStatuses == {"canceled", "done", "completed"}
ToolTitles == {"Buy milk"}
\* the seqnos a client addresses: the first todo and the last that can exist
ToolSeqnos == {1, MaxSeqno}

ToolRequest(tool, l, s, status, title) ==
    [tool |-> tool, listId |-> l, seqno |-> s, status |-> status, title |-> title]

\* the message of a thrown error: the handlers' own errors carry their
\* text, the store's exceptions are known by class, code and payload
MessageOf(e) == IF e.code = "" THEN e.detail ELSE <<e.name, e.code, e.detail>>

\* throw new Error(...) in a handler
HandlerError(message) == Exception("Error", "", message)
\* what a zod schema's parse() throws
ZodError(field) == Exception("ZodError", "invalid_enum_value", field)

\* mutant: safeExecute lets the exception through
safeExecuteRethrows(outcome, errorMessage) == outcome

\* safeExecute: the operation's value, or an Error built from what it threw
safeExecute(outcome, errorMessage) ==
    IF IsThrow(outcome) THEN JsError(<<errorMessage>> \o MessageOf(outcome)) ELSE outcome

\* what a handler's promise settles with
Returned(response) == [kind |-> "returned", value |-> response]

\* the handler after safeExecute: `if (result instanceof Error) return
\* createErrorResponse(result.message); return createSuccessResponse(data)`;
\* an exception that safeExecute did not catch rejects the handler's promise
HandlerReturn(result, data) ==
    IF IsThrow(result) THEN result
    ELSE IF result.kind = "error" THEN Returned(createErrorResponse(Str(result.message)))
    ELSE Returned(createSuccessResponse(data, Undefined))

\* McpServer's answer to arguments that fail the tool's declared schema:
\* the handler is not invoked
InvalidParams == [kind |-> "protocol_error", code |-> -32602]

\* the tool calls a client may make against list l
ToolMenuOn(l) ==
    { ToolRequest("create-todo-list", "", 0, Absent, "") }
    \cup { ToolRequest("delete-todo-list", l, 0, Absent, "") }
    \cup { ToolRequest("create-todo", l, 0, Absent, title) : title \in ToolTitles }
    \cup { ToolRequest("get-todos", l, s, st, "") :
             s \in ToolSeqnos \cup {0}, st \in FilterStatuses }
    \cup { ToolRequest("update-todo", l, s, st, "") : s \in ToolSeqnos, st \in UpdateStatuses }
    \cup { ToolRequest("delete-todo", l, s, Absent, "") : s \in ToolSeqnos }

ToolMenu == ToolMenuOn(TheList)

\* the arguments pass the schema the tool was registered with
PassesToolSchema(req) ==
    CASE req.tool = "get-todos"   -> req.status \in ToolStatuses \cup {Absent}
      [] req.tool = "update-todo" -> req.status \in ToolStatuses
      [] OTHER -> TRUE

\* a store or service call as the mutex queue holds it
NewCall(op, l, s, title, updates) ==
    [op |-> op, sop |-> FirstStoreOp(op), listId |-> l,
     seqno |-> s, title |-> title, updates |-> updates,
     pc |-> "queued", data |-> <<>>, svcTodos |-> <<>>, result |-> Pending,
     before |-> DoneCalls, held |-> TRUE, pre |-> NoSnapshot]

\* the handler of tool call t is at pc
Handling(t, tool, pc) == tools[t].tool = tool /\ tools[t].pc = pc

\* the service call the handler of t awaits has settled
Settled(t) == tools[t].pc \in {"awaiting", "deleting"} /\ calls[tools[t].call].pc = "done"
Outcome(t) == calls[tools[t].call].result

\* a handler can resume: promise continuations run before the event loop
\* takes the next request or the next completion of a file operation
Resumable == \E t \in DOMAIN tools : Settled(t)

\* the tool call as the server keeps it while its handler runs
ToolRecord(req, pc, call, settled) ==
    [tool |-> req.tool, listId |-> req.listId, seqno |-> req.seqno,
     status |-> req.status, title |-> req.title,
     pc |-> pc, call |-> call, kept |-> Undefined, response |-> settled]

\* one step of a client's script
ScriptStep(tool, s, status, title) == [tool |-> tool, seqno |-> s, status |-> status, title |-> title]

\* the list a scripted client works on: the one its first call created
ScriptList == calls[tools[1].call].listId

\* the client sends req now: any request while it has calls left, or the
\* next step of its script once every earlier call was answered
ClientSends(req) ==
    IF client = NoScript
    THEN Len(tools) < MaxToolCalls
    ELSE /\ Len(tools) < Len(client)
         /\ \A t \in DOMAIN tools : tools[t].pc = "done"
         /\ ScriptStep(req.tool, req.seqno, req.status, req.title) = client[Len(tools) + 1]
         /\ req.listId # "" => req.listId = ScriptList

\* a tools/call request for this tool arrives and passes the tool's schema:
\* McpServer invokes the handler, which runs up to its first await
Receives(req, tool) ==
    /\ ClientSends(req)
    /\ ~Resumable
    /\ req.tool = tool
    /\ PassesToolSchema(req)

\* the handler's first service call: it is queued on the store's mutex and
\* the handler awaits it
InvokeFirst(req, call) ==
    /\ calls' = Append(calls, call)
    /\ queue' = Append(queue, Len(calls) + 1)
    /\ tools' = Append(tools, ToolRecord(req, "awaiting", Len(calls) + 1, Pending))
    /\ UNCHANGED <<cache, files, assigned, reused, tainted, exclusive, start>>
    /\ UNCHANGED <<diskVars, besideTools>>

\* the handler of t, resumed, calls a second service method and awaits it
Invoke(t, call, pc, kept) ==
    /\ calls' = Append(calls, call)
    /\ queue' = Append(queue, Len(calls) + 1)
    /\ tools' = [tools EXCEPT ![t].pc = pc, ![t].call = Len(calls) + 1, ![t].kept = kept]
    /\ UNCHANGED <<cache, files, assigned, reused, tainted, exclusive, start>>
    /\ UNCHANGED <<diskVars, besideTools>>

\* the handler of t settles
Respond(t, settled) ==
    /\ tools' = [tools EXCEPT ![t].pc = "done", ![t].response = settled]
    /\ UNCHANGED <<storeVars, diskVars, besideTools>>

\* a tools/call request whose arguments fail the tool's schema: McpServer
\* answers it without invoking the handler
RejectCall(req) ==
    /\ ClientSends(req)
    /\ ~Resumable
    /\ ~PassesToolSchema(req)
    /\ tools' = Append(tools, ToolRecord(req, "done", 0, InvalidParams))
    /\ UNCHANGED <<storeVars, diskVars, besideTools>>

\* create-todo: CreateTodoSchema.parse, todoService.createTodo
CreateTodoHandler(req) ==
    /\ Receives(req, "create-todo")
    /\ InvokeFirst(req, NewCall("svc.createTodo", req.listId, 0, req.title, NoUpdates))

CreateTodoReturn(t) ==
    /\ Handling(t, "create-todo", "awaiting") /\ Settled(t)
    /\ LET result == safeExecute(IF IsThrow(Outcome(t)) THEN Outcome(t)
                                 ELSE formatTodo(Outcome(t).todo),
                                 "Failed to create todo")
       IN  Respond(t, HandlerReturn(result, Template("Todo Created:", result, <<>>)))

\* get-todos: one todo when seqno is given, else the todos of the list
GetTodosHandler(req) ==
    /\ Receives(req, "get-todos")
    /\ IF req.seqno # 0
       THEN InvokeFirst(req, NewCall("getTodo", req.listId, req.seqno, "", NoUpdates))
       ELSE InvokeFirst(req, NewCall("getTodosByListId", req.listId, 0, "", NoUpdates))

NoTodosFound == Str(<<"No todos found matching the specified criteria.">>)

\* mutant: the status filter is ignored
FilterByStatusIgnored(todos, status) == todos

\* todos.filter(todo => todo.status === status)
FilterByStatus(todos, status) ==
    IF status = Absent THEN todos ELSE SelectSeq(todos, LAMBDA todo : todo.status = status)

GetTodosReturn(t) ==
    /\ Handling(t, "get-todos", "awaiting") /\ Settled(t)
    /\ LET r == Outcome(t)
           filtered == FilterByStatus(r.todos, tools[t].status)
           outcome ==
               IF IsThrow(r) THEN r
               ELSE IF tools[t].seqno # 0
               THEN IF r.kind = "undefined"
                    THEN HandlerError(<<"Todo with seqno", "in list", "not found">>)
                    ELSE IF tools[t].status # Absent /\ r.todo.status # tools[t].status
                    THEN NoTodosFound
                    ELSE formatTodo(r.todo)
               ELSE IF Len(filtered) = 0 THEN NoTodosFound
               ELSE formatTodoList(filtered)
           result == safeExecute(outcome, "Failed to get todos in list")
       IN  Respond(t, HandlerReturn(result, result))

\* update-todo: UpdateTodoSchema.parse throws on a status the model does
\* not know; otherwise todoService.updateTodo
UpdateTodoHandler(req) ==
    /\ Receives(req, "update-todo")
    /\ IF req.status \notin Statuses
       THEN LET result == safeExecute(ZodError("status"), "Failed to update todo")
            IN  /\ tools' = Append(tools, ToolRecord(req, "done", 0,
                                     HandlerReturn(result, Template("Todo Updated:", result, <<>>))))
                /\ UNCHANGED <<storeVars, diskVars, besideTools>>
       ELSE InvokeFirst(req, NewCall("svc.updateTodo", req.listId, req.seqno, "",
                                     [title |-> Absent, status |-> req.status]))

UpdateTodoReturn(t) ==
    /\ Handling(t, "update-todo", "awaiting") /\ Settled(t)
    /\ LET r == Outcome(t)
           outcome == IF IsThrow(r) THEN r
                      ELSE IF r.kind = "undefined"
                      THEN HandlerError(<<"Todo with seqno", "in list", "not found">>)
                      ELSE formatTodo(r.todo)
           result == safeExecute(outcome, "Failed to update todo")
       IN  Respond(t, HandlerReturn(result, Template("Todo Updated:", result, <<>>)))

\* delete-todo: DeleteTodoSchema.parse, todoService.getTodo
DeleteTodoHandler(req) ==
    /\ Receives(req, "delete-todo")
    /\ InvokeFirst(req, NewCall("getTodo", req.listId, req.seqno, "", NoUpdates))

\* delete-todo after getTodo: not found, or todoService.deleteTodo
DeleteTodoFound(t) ==
    /\ Handling(t, "delete-todo", "awaiting") /\ Settled(t)
    /\ LET r == Outcome(t)
           outcome == IF IsThrow(r) THEN r
                      ELSE HandlerError(<<"Todo with seqno", "in list", "not found">>)
           result == safeExecute(outcome, "Failed to delete todo")
       IN  IF IsThrow(r) \/ r.kind = "undefined"
           THEN Respond(t, HandlerReturn(result, Template("Todo Deleted:", result, <<>>)))
           ELSE Invoke(t, NewCall("deleteTodo", tools[t].listId, tools[t].seqno, "", NoUpdates),
                       "deleting", r.todo)

\* delete-todo after deleteTodo: the response names the title
DeleteTodoReturn(t) ==
    /\ Handling(t, "delete-todo", "deleting") /\ Settled(t)
    /\ LET r == Outcome(t)
           outcome == IF IsThrow(r) THEN r
                      ELSE IF ~r.b THEN HandlerError(<<"Failed to delete todo with seqno", "in list">>)
                      ELSE Str(<<tools[t].kept.title>>)
           result == safeExecute(outcome, "Failed to delete todo")
       IN  Respond(t, HandlerReturn(result, Template("Todo Deleted:", result, <<>>)))

\* create-todo-list: the model factory draws a fresh id (uuidv4)
CreateTodoListHandler(req) ==
    /\ Receives(req, "create-todo-list")
    /\ \E id \in Lists :
         /\ id \notin cache
         /\ \A c \in DOMAIN calls : calls[c].listId # id
         /\ InvokeFirst(req, NewCall("createTodoList", id, 0, "", NoUpdates))

CreateTodoListReturn(t) ==
    /\ Handling(t, "create-todo-list", "awaiting") /\ Settled(t)
    /\ LET result == safeExecute(IF IsThrow(Outcome(t)) THEN Outcome(t)
                                 ELSE formatTodoListInfo(Outcome(t)),
                                 "Failed to create todo list")
       IN  Respond(t, HandlerReturn(result, Template("Todo List Created:", result, <<>>)))

\* delete-todo-list: DeleteTodoListSchema.parse, todoListService.getTodoList
DeleteTodoListHandler(req) ==
    /\ Receives(req, "delete-todo-list")
    /\ InvokeFirst(req, NewCall("getTodoList", req.listId, 0, "", NoUpdates))

\* delete-todo-list after getTodoList: not found, or todoListService.deleteTodoList
DeleteTodoListFound(t) ==
    /\ Handling(t, "delete-todo-list", "awaiting") /\ Settled(t)
    /\ LET r == Outcome(t)
           outcome == IF IsThrow(r) THEN r
                      ELSE HandlerError(<<"Todo list with ID", "not found">>)
           result == safeExecute(outcome, "Failed to delete todo list")
       IN  IF IsThrow(r) \/ r.kind = "undefined"
           THEN Respond(t, HandlerReturn(result, Template("Todo List Deleted:", result, <<"(and all its todos)">>)))
           ELSE Invoke(t, NewCall("deleteTodoList", tools[t].listId, 0, "", NoUpdates),
                       "deleting", r)

\* delete-todo-list after deleteTodoList: the response names the id
DeleteTodoListReturn(t) ==
    /\ Handling(t, "delete-todo-list", "deleting") /\ Settled(t)
    /\ LET r == Outcome(t)
           outcome == IF IsThrow(r) THEN r
                      ELSE IF ~r.b THEN HandlerError(<<"Failed to delete todo list with ID">>)
                      ELSE Str(<<tools[t].kept.id>>)
           result == safeExecute(outcome, "Failed to delete todo list")
       IN  Respond(t, HandlerReturn(result, Template("Todo List Deleted:", result, <<"(and all its todos)">>)))

\* a request arrives and its handler runs up to its first await
ToolCallFrom(menu) ==
    \/ \E req \in menu : RejectCall(req)
    \/ \E req \in menu : CreateTodoHandler(req)
    \/ \E req \in menu : GetTodosHandler(req)
    \/ \E req \in menu : UpdateTodoHandler(req)
    \/ \E req \in menu : DeleteTodoHandler(req)
    \/ \E req \in menu : CreateTodoListHandler(req)
    \/ \E req \in menu : DeleteTodoListHandler(req)

\* a handler resumes after the service call it awaited
ToolStep ==
    \/ \E t \in DOMAIN tools : CreateTodoReturn(t)
    \/ \E t \in DOMAIN tools : GetTodosReturn(t)
    \/ \E t \in DOMAIN tools : UpdateTodoReturn(t)
    \/ \E t \in DOMAIN tools : DeleteTodoFound(t)
    \/ \E t \in DOMAIN tools : DeleteTodoReturn(t)
    \/ \E t \in DOMAIN tools : CreateTodoListReturn(t)
    \/ \E t \in DOMAIN tools : DeleteTodoListFound(t)
    \/ \E t \in DOMAIN tools : DeleteTodoListReturn(t)

\* the store operations the services behind the tools use
StoreStepOf(c) ==
    \/ CreateTodoListSave(c)
    \/ CreateTodoListDone(c)
    \/ GetTodoList(c)
    \/ DeleteTodoListUnlink(c)
    \/ DeleteTodoListDone(c)
    \/ CreateTodoLoad(c)
    \/ CreateTodoSave(c)
    \/ GetTodo(c)
    \/ GetTodosByListId(c)
    \/ SvcCreateTodoContinue(c)
    \/ UpdateTodoLoad(c)
    \/ UpdateTodoSave(c)
    \/ DeleteTodoLoad(c)
    \/ DeleteTodoSave(c)

\* the event loop completes a file operation of the store
ToolStoreStep == ~Resumable /\ \E c \in DOMAIN calls : StoreStepOf(c)

NextTools ==
    \/ ToolCallFrom(ToolMenu)
    \/ ToolStep
    \/ ToolStoreStep

\* the server is up: the store was initialized over the data directory,
\* whose list holds the todos 1..n
InitTools ==
    /\ Init
    /\ cache \subseteq {TheList}
    /\ \A l \in cache : SeqnosOf(files[l].todos) = 1..Len(files[l].todos)

SpecTools == InitTools /\ [][NextTools]_vars

\* the end-to-end scenario: on an empty data directory the client creates a
\* list, adds a todo, updates it, reads it, deletes it, lists the todos and
\* removes the list, waiting for each answer
Scenario(status) ==
    << ScriptStep("create-todo-list", 0, Absent, ""),
       ScriptStep("create-todo", 0, Absent, "Buy milk"),
       ScriptStep("update-todo", 1, status, ""),
       ScriptStep("get-todos", 1, Absent, ""),
       ScriptStep("delete-todo", 1, Absent, ""),
       ScriptStep("get-todos", 0, Absent, ""),
       ScriptStep("delete-todo-list", 0, Absent, "") >>

ScenarioMenu == UNION { ToolMenuOn(l) : l \in Lists }

NextScenario ==
    \/ ToolCallFrom(ScenarioMenu)
    \/ ToolStep
    \/ ToolStoreStep

InitScenario ==
    /\ InitStore
    /\ cache = {}
    /\ service = NoService
    /\ tools = <<>>
    /\ client \in { Scenario(status) : status \in UpdateStatuses }
    /\ db = NoDatabase
    /\ main = NotStarted
    /\ log = NoLog

SpecScenario == InitScenario /\ [][NextScenario]_vars

\* --------------------------------------------------- the SQLite data store
\* the columns of the tables initSchema creates, and of the todos table an
\* earlier version of the server left behind
TodoListsColumns == {"id", "name", "description", "createdAt", "updatedAt"}
TodosColumns == {"id", "listId", "title", "description", "completedAt", "createdAt", "updatedAt"}
LegacyTodosColumns == {"id", "title", "description", "completedAt", "createdAt", "updatedAt"}

IncompatibleSchemaException(expected, actual) ==
    Exception("IncompatibleSchemaException", "INCOMPATIBLE_SCHEMA", <<expected, actual>>)
DataStoreInitializationException(cause) ==
    Exception("DataStoreInitializationException", "INITIALIZATION_FAILED", cause)

\* a database file as the engine keeps it: the journal mode is part of the
\* file's header, the rows of todos are in rowid order
DbFile(journal, todoLists, todos, index, lists, rows) ==
    [exists |-> TRUE, corrupt |-> FALSE, journal |-> journal,
     tables |-> [todo_lists |-> todoLists, todos |-> todos], index |-> index,
     lists |-> lists, todos |-> rows]

\* a file that is not a database
CorruptDbFile == [NoDbFile EXCEPT !.exists = TRUE, !.corrupt = TRUE]

\* the rows createOldSchemaDatabase inserts
LegacyRows == << [id |-> "todo-1", title |-> "Old Todo 1"],
                 [id |-> "todo-2", title |-> "Old Todo 2"],
                 [id |-> "todo-3", title |-> "Old Todo 3"] >>

\* a database of an earlier version: a todos table without listId
LegacyDbFile(journal) == DbFile(journal, NoTable, LegacyTodosColumns, FALSE, {}, LegacyRows)

\* a database this version created, holding these lists and todos
CurrentDbFile(lists, rows) == DbFile("wal", TodoListsColumns, TodosColumns, TRUE, lists, rows)

\* new Database(path): the file is created when the path holds none
OpenDatabase(file) ==
    IF file.exists THEN file ELSE DbFile("delete", NoTable, NoTable, FALSE, {}, <<>>)

\* db.pragma('journal_mode = WAL'): the mode is persistent, the engine
\* records it in the header of the database file
PragmaJournalWal(file) == [file EXCEPT !.journal = "wal"]

\* CREATE TABLE IF NOT EXISTS
CreateTableIfNotExists(file, table, columns) ==
    IF file.tables[table] # NoTable THEN file
    ELSE [file EXCEPT !.tables[table] = columns]

\* CREATE INDEX IF NOT EXISTS idx_todos_listId ON todos(listId)
CreateIndexIfNotExists(file) == [file EXCEPT !.index = TRUE]

\* mutant: the schema is not validated
validateSchemaSkipped(file) == Void

\* validateSchema: a todos table that exists must have the listId column
validateSchema(file) ==
    IF file.tables.todos # NoTable /\ "listId" \notin file.tables.todos
    THEN IncompatibleSchemaException("todos table with listId column", file.tables.todos)
    ELSE Void

\* initSchema: validate, then create what is missing
initSchema(file) ==
    IF IsThrow(validateSchema(file))
    THEN [result |-> validateSchema(file), file |-> file]
    ELSE [result |-> Void,
          file |-> CreateIndexIfNotExists(
                      CreateTableIfNotExists(
                          CreateTableIfNotExists(file, "todo_lists", TodoListsColumns),
                          "todos", TodosColumns))]

\* a call to the SQLite store, with the file as the call found it
SqlCall(req, pc, result) ==
    [op |-> req.op, listId |-> req.listId, seqno |-> req.seqno, title |-> req.title,
     updates |-> req.updates, pc |-> pc, result |-> result, pre |-> db.file]

SqlBudget == Len(db.calls) < MaxSqlOps

\* initialize() up to `await fs.mkdir(dir, { recursive: true })`
SqliteInitialize ==
    /\ SqlBudget
    /\ db' = [db EXCEPT !.calls = Append(@, SqlCall(Request("initialize", "", 0, "", NoUpdates),
                                                   "mkdir", Pending))]
    /\ UNCHANGED <<storeVars, diskVars, besideDb>>

\* initialize() after the mkdir, which can fail only where it has something
\* to create: open, set the pragmas, initSchema; an
\* IncompatibleSchemaException is rethrown as it is, anything else is
\* wrapped into DataStoreInitializationException
SqliteInitializeOpen(i) ==
    /\ db.calls[i].op = "initialize" /\ db.calls[i].pc = "mkdir"
    /\ \E made \in (IF db.file.exists THEN {TRUE} ELSE BOOLEAN) :
         LET opened == PragmaJournalWal(OpenDatabase(db.file))
             schema == initSchema(opened)
             settle(r, file, open) ==
                 db' = [db EXCEPT !.file = file, !.open = open,
                                  !.calls[i].pc = "done", !.calls[i].result = r,
                                  !.calls[i].pre = db.file]
         IN  IF ~made
             THEN settle(DataStoreInitializationException("EACCES"), db.file, db.open)
             ELSE IF db.file.corrupt
             THEN settle(DataStoreInitializationException("SQLITE_NOTADB"), db.file, TRUE)
             ELSE settle(schema.result, schema.file, TRUE)
    /\ UNCHANGED <<storeVars, diskVars, besideDb>>

\* close(): `if (this.db) this.db.close()`
SqliteClose ==
    /\ SqlBudget
    /\ db' = [db EXCEPT !.open = FALSE,
                        !.calls = Append(@, SqlCall(Request("close", "", 0, "", NoUpdates),
                                                   "done", Void))]
    /\ UNCHANGED <<storeVars, diskVars, besideDb>>


\* the rows of todos that belong to the list / that carry the key
RowsOf(file, l) == SelectSeq(file.todos, LAMBDA row : row.listId = l)
HasRow(file, l, s) == \E i \in DOMAIN file.todos : file.todos[i].listId = l /\ file.todos[i].seqno = s
RowAt(file, l, s) ==
    file.todos[CHOOSE i \in DOMAIN file.todos : file.todos[i].listId = l /\ file.todos[i].seqno = s]

\* the statements behind the DataStore contract: what each returns or
\* raises, and the file it leaves
SqlApply(req, file) ==
    CASE req.op = "createTodoList" ->
           IF req.listId \in file.lists
           THEN [result |-> ConstraintViolationException("UNIQUE"), file |-> file]
           ELSE [result |-> ListValue(req.listId),
                 file |-> [file EXCEPT !.lists = @ \cup {req.listId}]]
      [] req.op = "getTodoList" ->
           [result |-> IF req.listId \in file.lists THEN ListValue(req.listId) ELSE Undefined,
            file |-> file]
      [] req.op = "deleteTodoList" ->
           [result |-> Bool(req.listId \in file.lists),
            file |-> [file EXCEPT !.lists = @ \ {req.listId},
                                  !.todos = SelectSeq(@, LAMBDA row : row.listId # req.listId)]]
      [] req.op = "createTodo" ->
           IF req.listId \notin file.lists
           THEN [result |-> ConstraintViolationException("FOREIGN_KEY"), file |-> file]
           ELSE IF HasRow(file, req.listId, req.seqno)
           THEN [result |-> ConstraintViolationException("UNIQUE"), file |-> file]
           ELSE [result |-> TodoValue(Todo(req.listId, req.seqno, req.title, "pending")),
                 file |-> [file EXCEPT !.todos = Append(@, Todo(req.listId, req.seqno, req.title, "pending"))]]
      [] req.op = "getTodo" ->
           [result |-> IF HasRow(file, req.listId, req.seqno)
                       THEN TodoValue(RowAt(file, req.listId, req.seqno)) ELSE Undefined,
            file |-> file]
      [] req.op = "getTodosByListId" ->
           [result |-> TodosValue(SortBySeqno(RowsOf(file, req.listId))), file |-> file]
      [] req.op = "updateTodo" ->
           IF ~HasRow(file, req.listId, req.seqno)
           THEN [result |-> Undefined, file |-> file]
           ELSE LET updated == Merge(RowAt(file, req.listId, req.seqno), req.updates)
                IN  [result |-> TodoValue(updated),
                     file |-> [file EXCEPT !.todos =
                                 [i \in DOMAIN @ |->
                                    IF @[i].listId = req.listId /\ @[i].seqno = req.seqno
                                    THEN updated ELSE @[i]]]]
      [] req.op = "deleteTodo" ->
           [result |-> Bool(HasRow(file, req.listId, req.seqno)),
            file |-> [file EXCEPT !.todos =
                        SelectSeq(@, LAMBDA row : ~(row.listId = req.listId /\ row.seqno = req.seqno))]]

\* the store came up: the connection is open on a database with both tables
SqlUsable ==
    /\ db.open
    /\ db.file.tables.todo_lists # NoTable
    /\ "listId" \in db.file.tables.todos

\* the operations of the DataStore contract both backends implement
ContractMenu(lists) ==
    { Request(op, l, 0, "", NoUpdates) :
        op \in {"createTodoList", "getTodoList", "deleteTodoList", "getTodosByListId"}, l \in lists }
    \cup { Request(op, l, s, "", NoUpdates) : op \in {"getTodo", "deleteTodo"}, l \in lists, s \in Seqnos }
    \cup { Request("createTodo", l, s, "t", NoUpdates) : l \in lists, s \in Seqnos }
    \cup { Request("updateTodo", l, s, "", u) : l \in lists, s \in Seqnos, u \in UpdatesMenu }

\* a caller invokes an operation of the store: the statement runs at once
SqliteCall(req) ==
    /\ SqlBudget
    /\ SqlUsable
    /\ db' = [db EXCEPT !.file = SqlApply(req, db.file).file,
                        !.calls = Append(@, SqlCall(req, "done", SqlApply(req, db.file).result))]
    /\ UNCHANGED <<storeVars, diskVars, besideDb>>

NextSqlite ==
    \/ SqliteInitialize
    \/ \E i \in DOMAIN db.calls : SqliteInitializeOpen(i)
    \/ SqliteClose
    \/ \E req \in ContractMenu({TheList}) : SqliteCall(req)

\* the files a SQLite store may be pointed at: none, an empty database, one
\* of an earlier version, one of this version, something else
DbFilesFound ==
    {NoDbFile, CorruptDbFile}
    \cup { DbFile(journal, NoTable, NoTable, FALSE, {}, <<>>) : journal \in {"delete", "wal"} }
    \cup { LegacyDbFile(journal) : journal \in {"delete", "wal"} }
    \cup { CurrentDbFile(lists, <<>>) : lists \in SUBSET {TheList} }

InitSqlite ==
    /\ InitStore
    /\ cache = {}
    /\ service = NoService
    /\ tools = <<>>
    /\ client = NoScript
    /\ db \in { [NoDatabase EXCEPT !.file = file] : file \in DbFilesFound }
    /\ main = NotStarted
    /\ log = NoLog

SpecSqlite == InitSqlite /\ [][NextSqlite]_vars

\* ------------------------------------------------------------------ main()
Signals == {"SIGINT", "SIGTERM"}

\* the process: where main() or a signal handler stands, whether the signal
\* handlers are registered, why it is shutting down, how it ended; base is
\* the number of DataService calls made before the one it awaits
Process(pc, base, handlers, cause, exit) ==
    [pc |-> pc, base |-> base, handlers |-> handlers, cause |-> cause, exit |-> exit]

Running == [kind |-> "running"]
Exited(code) == [kind |-> "exited", code |-> code]
\* the default disposition of SIGINT and SIGTERM ends the process
Killed(signal) == [kind |-> "killed", signal |-> signal]

\* the DataService call the process awaits
Awaited == service.ops[main.base + 1]
CallMade == Len(service.ops) > main.base

\* mutant: every shutdown exits with status 0
ExitStatusZero(cause) == 0

\* process.exit(1) in the catch block of main(), process.exit(0) in the
\* signal handlers
ExitStatus(cause) == IF cause = "startup" THEN 1 ELSE 0

\* main() is called: it logs and calls dataService.initialize()
MainStart ==
    /\ main = NotStarted
    /\ main' = Process("initialize", Len(service.ops), FALSE, "", Running)
    /\ UNCHANGED <<storeVars, diskVars, service, besideMain>>

\* dataService.initialize() runs up to its await
MainInitialize ==
    /\ main.pc = "initialize" /\ ~CallMade
    /\ DataServiceInitialize

\* the store's initialize() completes or fails
MainInitializeSettles ==
    /\ main.pc = "initialize" /\ CallMade
    /\ DataServiceInitializeDone(main.base + 1)

\* main() after `await dataService.initialize()`: on success it registers
\* the signal handlers and connects the transport; whatever throws lands in
\* the catch block, which calls dataService.close()
MainConnect ==
    /\ main.pc = "initialize" /\ CallMade /\ Awaited.pc = "done"
    /\ IF IsThrow(Awaited.result)
       THEN main' = [main EXCEPT !.pc = "close", !.base = Len(service.ops), !.cause = "startup"]
       ELSE \E connected \in BOOLEAN :
              main' = IF connected
                      THEN [main EXCEPT !.pc = "running", !.handlers = TRUE]
                      ELSE [main EXCEPT !.pc = "close", !.base = Len(service.ops),
                                        !.handlers = TRUE, !.cause = "startup"]
    /\ UNCHANGED <<storeVars, diskVars, service, besideMain>>

\* a running server: a handler's service calls dataService.getStore()
MainServes ==
    /\ main.pc = "running"
    /\ Len(service.ops) + 1 < MaxServiceCalls
    /\ DataServiceGetStore

\* the process has a continuation to run before the event loop takes a signal
MainBusy ==
    \/ main.pc = "initialize" /\ (~CallMade \/ Awaited.pc = "done")
    \/ main.pc = "close"

\* SIGINT or SIGTERM arrives: the registered handler calls
\* dataService.close(); without a handler the signal ends the process
Signal(signal) ==
    /\ main.pc \in {"initialize", "running"}
    /\ ~MainBusy
    /\ main' = IF main.handlers
               THEN [main EXCEPT !.pc = "close", !.base = Len(service.ops), !.cause = signal]
               ELSE [main EXCEPT !.pc = "ended", !.exit = Killed(signal)]
    /\ UNCHANGED <<storeVars, diskVars, service, besideMain>>

\* dataService.close() runs up to its await
MainClose ==
    /\ main.pc = "close" /\ ~CallMade
    /\ DataServiceClose

\* the store's close() has returned
MainCloseSettles ==
    /\ main.pc = "close" /\ CallMade
    /\ DataServiceCloseDone(main.base + 1)

\* after `await dataService.close()`: process.exit
MainExit ==
    /\ main.pc = "close" /\ CallMade /\ Awaited.pc = "done"
    /\ main' = [main EXCEPT !.pc = "ended", !.exit = Exited(ExitStatus(main.cause))]
    /\ UNCHANGED <<storeVars, diskVars, service, besideMain>>

NextMain ==
    \/ MainStart
    \/ MainInitialize
    \/ MainInitializeSettles
    \/ MainConnect
    \/ MainServes
    \/ \E signal \in Signals : Signal(signal)
    \/ MainClose
    \/ MainCloseSettles
    \/ MainExit

\* the process was just started over a data directory
InitMain ==
    /\ InitStore
    /\ cache \subseteq {TheList}
    /\ service = NoService
    /\ tools = <<>>
    /\ client = NoScript
    /\ db = NoDatabase
    /\ main = NotStarted
    /\ log = NoLog

SpecMain == InitMain /\ [][NextMain]_vars

\* -------------------------------------------------------- the call logger
\* what the tool layer hands to logToolCall after a tool call
LogEntry(tool, success, response, error) ==
    [tool |-> tool, success |-> success, response |-> response, error |-> error]

LoggedCalls ==
    { LogEntry("create-todo", TRUE, "created", ""),
      LogEntry("get-todos", FALSE, "", "not found") }

\* formatLogEntry: status mark, tool, and the error or the response
formatLogEntry(entry) ==
    [status |-> IF entry.success THEN "ok" ELSE "failed",
     tool |-> entry.tool,
     text |-> IF entry.error # "" THEN <<"ERROR: ", entry.error>>
              ELSE IF entry.response # "" THEN <<entry.response>>
              ELSE <<>>]

\* mutant: the catch block of logToolCall passes the error on
logCatchRethrows(err) == err

\* the catch block of logToolCall: the error is dropped and the call returns
logCatch(err) == Void

\* a call of logToolCall with the tool response its caller is about to
\* return; returned is what the caller hands back in the end
LogCall(entry, pc) == [entry |-> entry, pc |-> pc, result |-> Pending, returned |-> Pending]

\* the tool layer around logToolCall: `await apiLogger.logToolCall(...)` and
\* then the response; an exception out of the await replaces the response
ReturnedAfterLogging(entry, result) == IF IsThrow(result) THEN result ELSE entry

\* logToolCall ends with this result and its caller goes on
LogSettles(i, result, lines, diagnostics) ==
    log' = [log EXCEPT !.calls[i].pc = "done",
                       !.calls[i].result = result,
                       !.calls[i].returned = ReturnedAfterLogging(log.calls[i].entry, result),
                       !.lines = lines,
                       !.diagnostics = diagnostics]

\* logToolCall up to its first file operation: ensureLogDirectory awaits
\* fs.mkdir unless logDirCreated is set, then comes fs.appendFile
LogToolCall(entry) ==
    /\ Len(log.calls) < MaxLogCalls
    /\ log' = [log EXCEPT !.calls = Append(@, LogCall(entry, IF log.dirCreated THEN "append" ELSE "mkdir"))]
    /\ UNCHANGED <<storeVars, diskVars, besideLog, tools>>

\* fs.mkdir(logDir, { recursive: true }) settles: logDirCreated is set
\* whether it succeeded or not
LogMkdir(i) ==
    /\ log.calls[i].pc = "mkdir"
    /\ \E made \in BOOLEAN :
         log' = [log EXCEPT !.dirCreated = TRUE,
                            !.dir = @ \/ made,
                            !.calls[i].pc = "append"]
    /\ UNCHANGED <<storeVars, diskVars, besideLog, tools>>

\* fs.appendFile settles: the line is in the file, or the error lands in the
\* catch block, which reports it in development mode only
LogAppend(i) ==
    /\ log.calls[i].pc = "append"
    /\ \E written \in (IF log.dir THEN BOOLEAN ELSE {FALSE}) :
         IF written
         THEN LogSettles(i, Void, Append(log.lines, formatLogEntry(log.calls[i].entry)), log.diagnostics)
         ELSE LogSettles(i, logCatch(SystemError(IF log.dir THEN "EACCES" ELSE "ENOENT")),
                         log.lines,
                         IF log.development
                         THEN Append(log.diagnostics, "Failed to write to log file:")
                         ELSE log.diagnostics)
    /\ UNCHANGED <<storeVars, diskVars, besideLog, tools>>

NextLog ==
    \/ \E entry \in LoggedCalls : LogToolCall(entry)
    \/ \E i \in DOMAIN log.calls : LogMkdir(i)
    \/ \E i \in DOMAIN log.calls : LogAppend(i)

\* the server is up; logs/ may exist already, NODE_ENV may be development
InitLog ==
    /\ InitStore
    /\ cache = {}
    /\ service = NoService
    /\ tools = <<>>
    /\ client = NoScript
    /\ db = NoDatabase
    /\ main = NotStarted
    /\ log \in { [NoLog EXCEPT !.dir = dir, !.development = development] :
                   dir \in BOOLEAN, development \in BOOLEAN }

SpecLog == InitLog /\ [][NextLog]_vars

\* ------------------------------------------- both backends, side by side
\* the rows a SQLite store holds when it was given the todos of these lists
RECURSIVE RowsOfLists(_)
RowsOfLists(lists) ==
    IF lists = {} THEN <<>>
    ELSE LET l == CHOOSE x \in lists : TRUE
         IN  files[l].todos \o RowsOfLists(lists \ {l})

\* a caller runs the same operation on both stores, one operation after the
\* other: the JSON store queues it on its mutex, the SQLite store runs the
\* statement at once
BothIssue(req) ==
    /\ Len(calls) < MaxCalls
    /\ \A c \in DOMAIN calls : calls[c].pc = "done"
    /\ calls' = Append(calls, NewCall(req.op, req.listId, req.seqno, req.title, req.updates))
    /\ queue' = Append(queue, Len(calls) + 1)
    /\ db' = [db EXCEPT !.file = SqlApply(req, db.file).file,
                        !.calls = Append(@, SqlCall(req, "done", SqlApply(req, db.file).result))]
    /\ UNCHANGED <<cache, files, assigned, reused, tainted, exclusive, start>>
    /\ UNCHANGED <<diskVars, besideDb>>

\* the JSON store's steps for the operations of the contract
JsonStoreStep(c) ==
    \/ CreateTodoListSave(c)
    \/ CreateTodoListDone(c)
    \/ GetTodoList(c)
    \/ DeleteTodoListUnlink(c)
    \/ DeleteTodoListDone(c)
    \/ CreateTodoLoad(c)
    \/ CreateTodoSave(c)
    \/ GetTodo(c)
    \/ GetTodosByListId(c)
    \/ UpdateTodoLoad(c)
    \/ UpdateTodoSave(c)
    \/ DeleteTodoLoad(c)
    \/ DeleteTodoSave(c)

NextBackends ==
    \/ \E req \in ContractMenu(Lists) : BothIssue(req)
    \/ \E c \in DOMAIN calls : JsonStoreStep(c)

\* both stores were initialized over the same lists and todos
InitBackends ==
    /\ InitStore
    /\ service = NoService
    /\ tools = <<>>
    /\ client = NoScript
    /\ db = [file |-> CurrentDbFile(cache, RowsOfLists(cache)), open |-> TRUE, calls |-> <<>>]
    /\ main = NotStarted
    /\ log = NoLog

SpecBackends == InitBackends /\ [][NextBackends]_vars

\* ------------------------------- one process alone, with writes that can fail
\* mutant: the failed write leaves withFileLock without the release
WriteTmpFailsLockKept(p) ==
    /\ Busy(p)
    /\ Task(p).pc = "tmp"
    /\ proc' = Settle(p, Task(p), FileOperationException("WRITE"), FALSE)
    /\ UNCHANGED <<cache, files, calls, queue, assigned, reused, tainted, exclusive, start, tmp, lock>>
    /\ UNCHANGED serverVars

\* saveTodoListData under the lock: fs.writeFile(tempPath, dataString)
\* rejects (no space, no permission, too many open files). withFileLock's
\* catch rethrows, its finally releases the lock, and saveTodoListData's catch
\* wraps the error into FileOperationException(..., 'WRITE', ...)
WriteTmpFails(p) ==
    /\ Busy(p)
    /\ Task(p).pc = "tmp"
    /\ lock' = [lock EXCEPT ![Task(p).listId] = Free]
    /\ proc' = Settle(p, Task(p), FileOperationException("WRITE"), FALSE)
    /\ UNCHANGED <<cache, files, calls, queue, assigned, reused, tainted, exclusive, start, tmp>>
    /\ UNCHANGED serverVars

\* the file-system calls of the one server process; nobody else takes a lock
NextOneProcess ==
    \/ DiskBegin(FirstProc)
    \/ LockNoFile(FirstProc)
    \/ LockAcquire(FirstProc)
    \/ ReadUnderLock(FirstProc)
    \/ ReleaseAfterRead(FirstProc)
    \/ AccessFound(FirstProc)
    \/ AccessMissing(FirstProc)
    \/ OpenTruncate(FirstProc)
    \/ WritePlaceholder(FirstProc)
    \/ WriteTmp(FirstProc)
    \/ WriteTmpFails(FirstProc)
    \/ RenameTmp(FirstProc)
    \/ ReleaseAfterWrite(FirstProc)
    \/ UnlinkFile(FirstProc)

\* the process was initialized on a directory of whole list files
InitOneProcess == InitDisk

SpecOneProcess == InitOneProcess /\ [][NextOneProcess]_vars

\* ------------------------------------------ operations waiting on the mutex
\* Calls that wait on the mutex together in one behaviour.
MaxWaiters == 3

\* calls on one list of which some return and some raise, depending on what
\* ran before them
WaitersMenu ==
    { Request(op, TheList, 0, "", NoUpdates) : op \in {"createTodoList", "deleteTodoList", "getTodosByListId"} }
    \cup { Request("createTodo", TheList, 1, "t", NoUpdates) }
    \cup { Request("updateTodo", TheList, 1, "", [title |-> Absent, status |-> "completed"]) }

IssueWaiter == IssueFrom(WaitersMenu, MaxWaiters)

\* the event loop resumes the operation whose await has settled
ResumeWaiter ==
    \/ \E c \in DOMAIN calls : CreateTodoListSave(c)
    \/ \E c \in DOMAIN calls : CreateTodoListDone(c)
    \/ \E c \in DOMAIN calls : DeleteTodoListUnlink(c)
    \/ \E c \in DOMAIN calls : DeleteTodoListDone(c)
    \/ \E c \in DOMAIN calls : CreateTodoLoad(c)
    \/ \E c \in DOMAIN calls : CreateTodoSave(c)
    \/ \E c \in DOMAIN calls : GetTodosByListId(c)
    \/ \E c \in DOMAIN calls : UpdateTodoLoad(c)
    \/ \E c \in DOMAIN calls : UpdateTodoSave(c)

NextWaiters ==
    \/ IssueWaiter
    \/ ResumeWaiter

\* the list does not exist, or exists with at most one todo
InitWaiters == InitOneList /\ assigned[TheList] \subseteq {1}

\* a callback whose await has settled is run by the event loop: a store step
\* that can run is not put off forever; callers need not issue anything
SpecWaiters == InitWaiters /\ [][NextWaiters]_vars /\ WF_vars(ResumeWaiter)

\* ------------------------------------- the DataService over a failing backend
\* what the backend's close() throws (SqliteDataStore: `this.db.close()`)
CloseFailed == Exception("Error", "", "close failed")

\* close() on a backend whose close() raises: `await this.store.close()`
\* throws, `this.store = null` is not reached, the connection stays open
DataServiceCloseRaises ==
    /\ ServiceBudget
    /\ service.store # NoStore
    /\ service' = [service EXCEPT !.ops = Append(@, ServiceOp("close", "done", CloseFailed))]
    /\ UNCHANGED <<storeVars, diskVars, besideService>>

NextServiceFaults ==
    \/ DataServiceInitialize
    \/ \E i \in DOMAIN service.ops : DataServiceInitializeDone(i)
    \/ DataServiceGetStore
    \/ DataServiceClose
    \/ \E i \in DOMAIN service.ops : DataServiceCloseDone(i)
    \/ DataServiceCloseRaises

InitServiceFaults == InitService

SpecServiceFaults == InitServiceFaults /\ [][NextServiceFaults]_vars

\* ------------------------------------------------------------------ claims
Succeeded(c) == calls[c].pc = "done" /\ ~IsThrow(calls[c].result)

IsUnique(r) == r = ConstraintViolationException("UNIQUE")
IsForeignKey(r) == r = ConstraintViolationException("FOREIGN_KEY")

\* C1: the service never assigns to a new todo a seqno that a todo of the
\* same list has held before, also after the todo with the highest seqno was
\* deleted.
C1_SeqnoNeverReused == reused = {}

\* C2: at every moment, in every list file, no two todos share a seqno.
C2_SeqnoUnique ==
    \A l \in Lists :
        files[l].exists =>
            \A i, j \in DOMAIN files[l].todos :
                i # j => files[l].todos[i].seqno # files[l].todos[j].seqno

\* C2 witness: a creation was refused as a duplicate while its list holds
\* two todos or more.
C2_Witness ==
    \E c \in DoneCalls :
        /\ calls[c].sop = "createTodo"
        /\ IsUnique(calls[c].result)
        /\ files[calls[c].listId].exists
        /\ Len(files[calls[c].listId].todos) >= 2

\* a createTodoList for list l that had not completed when call d was issued
RecreatedSince(l, d) ==
    \E x \in DOMAIN calls :
        calls[x].op = "createTodoList" /\ calls[x].listId = l /\ x \notin calls[d].before

\* C4: once deleteTodoList has completed on a list that held todos, a later
\* getTodosByListId on it returns an empty collection and a later getTodo
\* returns undefined, without an error.
C4_DeletedListReadsEmpty ==
    \A d, g \in DoneCalls :
        ( /\ calls[d].op = "deleteTodoList"
          /\ calls[d].result = Bool(TRUE)
          /\ calls[d].pre.file.exists
          /\ calls[d].pre.file.todos # <<>>
          /\ d \in calls[g].before
          /\ calls[g].op \in {"getTodosByListId", "getTodo"}
          /\ calls[g].listId = calls[d].listId
          /\ ~RecreatedSince(calls[d].listId, d) )
        => IF calls[g].op = "getTodo"
           THEN calls[g].result = Undefined
           ELSE calls[g].result = TodosValue(<<>>)

\* the value an operation returns for a target that does not exist
Sentinel(op) == IF op \in {"deleteTodo", "deleteTodoList"} THEN Bool(FALSE) ELSE Undefined

\* the target of a lookup, update or delete was missing when it ran
TargetMissing(c) ==
    IF calls[c].op \in {"getTodoList", "updateTodoList", "deleteTodoList"}
    THEN ~calls[c].pre.known
    ELSE \/ ~calls[c].pre.file.exists
         \/ calls[c].seqno \notin SeqnosOf(calls[c].pre.file.todos)

\* C5: a lookup, update or delete whose list or (listId, seqno) does not
\* exist returns the absent-value sentinel and never raises.
C5_MissingTargetSentinel ==
    \A c \in DoneCalls :
        ( /\ calls[c].op \in {"getTodoList", "getTodo", "updateTodoList", "updateTodo",
                              "deleteTodo", "deleteTodoList"}
          /\ TargetMissing(c) )
        => calls[c].result = Sentinel(calls[c].op)

\* C6: TodoService.createTodo for a list that does not exist fails with the
\* store's ConstraintViolation of kind foreign-key.
C6_ServiceForeignKey ==
    \A c \in DoneCalls :
        (calls[c].op = "svc.createTodo" /\ ~calls[c].pre.known)
        => IsForeignKey(calls[c].result)

\* C7: the store's createTodo for a list that is not in the cache ends with
\* ConstraintViolation(FOREIGN_KEY) in the step that finds the list missing,
\* and that step changes no list file and not the cache.
C7_StoreForeignKey ==
    [][ \A c \in DOMAIN calls :
          ( /\ calls[c].sop = "createTodo"
            /\ calls[c].pc = "queued"
            /\ calls'[c].pc # "queued"
            /\ calls[c].listId \notin cache )
          => /\ calls'[c].pc = "done"
             /\ IsForeignKey(calls'[c].result)
             /\ files' = files
             /\ cache' = cache ]_vars

\* C7 witness: a store-level createTodo found its list missing and was
\* refused with the foreign-key violation.
C7_Witness ==
    \E c \in DoneCalls :
        /\ calls[c].op = "createTodo"
        /\ ~calls[c].pre.known
        /\ IsForeignKey(calls[c].result)
        /\ ~files[calls[c].listId].exists

\* C8: TodoService.createTodo gives the new todo one more than the largest
\* seqno among the todos it read (1 if it read none), so a list filled by
\* the service alone, with no deletion, holds exactly the seqnos 1..n.
C8_NextSeqno ==
    /\ \A c \in DOMAIN calls :
         (calls[c].op = "svc.createTodo" /\ calls[c].sop = "createTodo")
         => LET S == SeqnosOf(calls[c].svcTodos)
            IN  IF S = {} THEN calls[c].seqno = 1
                ELSE /\ calls[c].seqno - 1 \in S
                     /\ \A x \in S : x < calls[c].seqno
    /\ \A l \in Lists \ tainted :
         files[l].exists => SeqnosOf(files[l].todos) = 1..Len(files[l].todos)

\* C8 witness: the service created a todo in a list that already held
\* todos and never saw a deletion; it is the list's last todo.
C8_Witness ==
    \E c \in DoneCalls :
        /\ calls[c].op = "svc.createTodo"
        /\ calls[c].result.kind = "todo"
        /\ calls[c].listId \notin tainted
        /\ calls[c].seqno >= 2
        /\ calls[c].seqno = Len(files[calls[c].listId].todos)

\* C9 (as stated): every public operation, close included, runs inside the
\* mutex.
C9_EveryOperationInsideMutex == \A c \in DoneCalls : calls[c].held

\* C9 (amended): every public operation except close runs all its steps
\* while it holds the mutex, so no step of one operation runs between the
\* first and last cache or file access of another; close takes no mutex and
\* touches neither cache nor files.
C9_StoreOperationsSerialized ==
    /\ exclusive
    /\ \A c \in DOMAIN calls : calls[c].op # "close" => calls[c].held
    /\ Cardinality({c \in DOMAIN calls : calls[c].pc \in MidPcs}) <= 1

\* C9 witness: an operation is suspended between two of its accesses while
\* another operation, issued meanwhile, waits for the mutex.
C9_Witness ==
    /\ Len(queue) >= 2
    /\ calls[Head(queue)].pc \in MidPcs
    /\ calls[queue[2]].pc = "queued"

\* three createTodo calls for one key make up the whole batch
ThreeCreatesSameKey ==
    /\ Len(calls) = 3
    /\ AllDone
    /\ \A c \in DOMAIN calls :
         /\ calls[c].op = "createTodo"
         /\ calls[c].listId = calls[1].listId
         /\ calls[c].seqno = calls[1].seqno
         /\ calls[c].before = {}
    /\ calls[1].listId \in start.cache

\* the todos of the key's list that carry the key's seqno
HoldersOfKey ==
    {i \in DOMAIN files[calls[1].listId].todos :
        files[calls[1].listId].todos[i].seqno = calls[1].seqno}

ExactlyOneWins ==
    /\ Cardinality({c \in DOMAIN calls : Succeeded(c)}) = 1
    /\ Cardinality({c \in DOMAIN calls : IsUnique(calls[c].result)}) = 2
    /\ Cardinality(HoldersOfKey) = 1

\* C3 (as stated): three createTodo calls for the same (listId, seqno),
\* issued concurrently against an existing list: exactly one succeeds, two
\* fail with ConstraintViolation(UNIQUE), and the key then holds one todo.
C3_OneOfThreeWins == ThreeCreatesSameKey => ExactlyOneWins

\* C3 (amended): the same, for a key that no todo of the list holds when
\* the three calls are issued.
C3_OneOfThreeWinsOnFreeKey ==
    ( /\ ThreeCreatesSameKey
      /\ calls[1].seqno \notin SeqnosOf(start.files[calls[1].listId].todos) )
    => ExactlyOneWins

\* C3 witness: three concurrent creations of one free key have all
\* completed and the one issued last was refused as a duplicate.
C3_Witness ==
    /\ ThreeCreatesSameKey
    /\ calls[1].seqno \notin SeqnosOf(start.files[calls[1].listId].todos)
    /\ IsUnique(calls[3].result)

\* how far a call has come: queued, between two awaits, completed
Rank(call) == IF call.pc = "done" THEN 2 ELSE IF call.pc \in MidPcs THEN 1 ELSE 0

\* a step that touches the calls issues one or moves one forward, and moves
\* none back
MovesForward ==
    calls' # calls =>
        /\ Len(calls') >= Len(calls)
        /\ \A c \in DOMAIN calls : Rank(calls'[c]) >= Rank(calls[c])
        /\ \/ Len(calls') > Len(calls)
           \/ \E c \in DOMAIN calls : Rank(calls'[c]) > Rank(calls[c])

\* C10: store calls issued concurrently against one list all complete (as
\* long as one is pending some store operation can take its next step, and
\* every step moves a call forward), and once they have, the list file is
\* what running them one after the other in some order would have left: no
\* create, update or delete is lost.
C10_Serializable ==
    /\ [](AllDone => \E o \in Orders : files = RunInOrder(o, start.files, start.cache))
    /\ []((calls # <<>> /\ ~AllDone) => ENABLED StoreStep)
    /\ [][MovesForward]_vars

\* C10 witness: a create, an update and a delete issued together have all
\* completed and each took effect.
C10_Witness ==
    /\ AllDone
    /\ \E a, b, c \in DOMAIN calls :
         /\ calls[a].op = "createTodo" /\ calls[a].result.kind = "todo"
         /\ calls[b].op = "updateTodo" /\ calls[b].result.kind = "todo"
         /\ calls[c].op = "deleteTodo" /\ calls[c].result = Bool(TRUE)
         /\ calls[a].before = {} /\ calls[b].before = {} /\ calls[c].before = {}

\* the todos are in strictly ascending seqno order
IsAscending(todos) == \A i \in 1..(Len(todos) - 1) : todos[i].seqno < todos[i + 1].seqno

\* the five creations have completed
CreatesCompleted ==
    /\ Len(calls) >= ConcurrentCreates
    /\ \A c \in 1..ConcurrentCreates : calls[c].op = "createTodo" /\ calls[c].pc = "done"

\* all five succeeded and the list holds exactly five todos in ascending
\* order, in its file and in what a later fetch returned
FiveCreatedInOrder ==
    /\ \A c \in 1..ConcurrentCreates : calls[c].result.kind = "todo"
    /\ Len(files[TheList].todos) = ConcurrentCreates
    /\ IsAscending(files[TheList].todos)
    /\ \A g \in DoneCalls :
         calls[g].op = "getTodosByListId"
         => /\ calls[g].result.kind = "todos"
            /\ Len(calls[g].result.todos) = ConcurrentCreates
            /\ IsAscending(calls[g].result.todos)

\* C11 (as stated): five createTodo calls with distinct seqnos issued
\* concurrently against one list all succeed, and once all have completed
\* the list holds exactly five todos, returned in ascending seqno order.
C11_FiveDistinctCreates == CreatesCompleted => FiveCreatedInOrder

\* C11 (amended): the same, for a list that holds no todo when the calls
\* are issued.
C11_FiveDistinctCreatesOnEmptyList ==
    (CreatesCompleted /\ start.files[TheList].todos = <<>>) => FiveCreatedInOrder

\* C11 witness: on an empty list the five creations completed in an order
\* that is not the seqno order, and the later fetch has returned.
C11_Witness ==
    /\ CreatesCompleted
    /\ start.files[TheList].todos = <<>>
    /\ calls[1].seqno = ConcurrentCreates
    /\ calls[ConcurrentCreates].seqno = 1
    /\ Len(calls) = ConcurrentCreates + 1
    /\ calls[ConcurrentCreates + 1].pc = "done"

\* process p has read a list file under the lock
HasRead(p) == Busy(p) /\ Task(p).pc = "release" /\ Task(p).phase = "load" /\ ~Task(p).err

\* C12: whatever a reader of an existing list file reads, in any process
\* and at any moment, is a whole document that some write produced in
\* full, never a partially written file.
C12_ReadersSeeWholeDocuments == \A p \in Procs : HasRead(p) => IsDocument(Task(p).buf)

\* how far an operation has come through its file-system calls
Measure(t) ==
    IF t.phase = "load"
    THEN IF t.pc = "lock" THEN t.tries
         ELSE IF t.pc = "read" THEN LockRetries + 1
         ELSE LockRetries + 2
    ELSE IF t.phase = "save"
    THEN IF t.pc = "access" THEN LockRetries + 3
         ELSE IF t.pc = "create" THEN LockRetries + 4
         ELSE IF t.pc = "fill" THEN LockRetries + 5
         ELSE IF t.pc = "lock" THEN LockRetries + 6 + t.tries
         ELSE IF t.pc = "tmp" THEN 2 * LockRetries + 7
         ELSE IF t.pc = "rename" THEN 2 * LockRetries + 8
         ELSE 2 * LockRetries + 9
    ELSE 0

\* a step of an operation in progress ends it or moves it forward
Advances ==
    \A p \in Procs :
        (Busy(p) /\ proc'[p] # proc[p])
        => \/ proc'[p].task = Idle
           \/ Measure(proc'[p].task) > Measure(Task(p))

\* the waits of a lock acquisition that has failed k times so far
WaitsAfter(k) == [i \in 1..k |-> <<100, 200, 400, 800, 1000>>[i]]

\* the process gave up a lock acquisition in its last operation
GaveUp(p) == proc[p].last # Idle /\ proc[p].last.lockFailed

\* C13 (as stated): a lock acquisition makes at most 5 attempts before it
\* gives up.
C13_AtMostFiveAttempts == \A p \in Procs : GaveUp(p) => Len(proc[p].last.waits) + 1 <= 5

\* C13 (amended): a lock acquisition makes one attempt and at most 5
\* retries, 6 attempts in all, waiting 100, 200, 400, 800 and 1000 ms
\* between them, and then gives up; an operation in progress can always
\* take a step, whatever the other process does or fails to do, and every
\* step ends it or moves it forward, so every store operation terminates.
C13_BoundedLockRetries ==
    /\ [](\A p \in Procs :
            /\ (Busy(p) /\ Task(p).pc = "lock")
               => Task(p).tries <= LockRetries /\ Task(p).waits = WaitsAfter(Task(p).tries)
            /\ GaveUp(p) => proc[p].last.waits = WaitsAfter(LockRetries)
            /\ Busy(p) => ENABLED (DiskStep /\ proc'[p] # proc[p]))
    /\ [][Advances]_vars

\* C13 witness: a process gave up acquiring a lock that the other process
\* still holds.
C13_Witness ==
    \E p \in Procs :
        /\ GaveUp(p)
        /\ lock[proc[p].last.listId] \in Procs \ {p}

\* C14: an operation that could not acquire a list file's lock within its
\* retries fails with FileOperationException of kind LOCK, be it a read or
\* a write.
C14_LockFailureIsKindLock ==
    \A p \in Procs : GaveUp(p) => proc[p].last.result = FileOperationException("LOCK")

\* call e is a deleteTodoList issued after deleteTodoList d of the same
\* list had returned true, with no createTodoList of the list since
DeletesAgain(d, e) ==
    /\ calls[d].op = "deleteTodoList"
    /\ calls[d].pc = "done"
    /\ calls[d].result = Bool(TRUE)
    /\ calls[e].op = "deleteTodoList"
    /\ calls[e].listId = calls[d].listId
    /\ d \in calls[e].before
    /\ ~RecreatedSince(calls[d].listId, d)

\* C15: deleteTodoList on a list that has already been deleted returns
\* false, raises nothing, and its steps leave the files and the cache as
\* they were.
C15_SecondDeleteReturnsFalse ==
    /\ [](\A d, e \in DOMAIN calls :
            (DeletesAgain(d, e) /\ calls[e].pc # "queued")
            => calls[e].pc = "done" /\ calls[e].result = Bool(FALSE))
    /\ [][ \A d, e \in DOMAIN calls :
             (DeletesAgain(d, e) /\ calls'[e] # calls[e])
             => files' = files /\ cache' = cache ]_vars

\* C15 witness: a list was deleted, and a second deleteTodoList on it has
\* returned false.
C15_Witness ==
    \E d, e \in DoneCalls :
        /\ DeletesAgain(d, e)
        /\ calls[e].result = Bool(FALSE)
        /\ calls[d].pre.file.exists

\* the todos after differ from the todos before in statuses at most
OnlyStatusesDiffer(before, after) ==
    /\ Len(after) = Len(before)
    /\ \A i \in DOMAIN before :
         /\ after[i].listId = before[i].listId
         /\ after[i].seqno = before[i].seqno
         /\ after[i].title = before[i].title

\* C16 (as stated): no operation changes the listId, seqno or title of a
\* todo: every step that rewrites a list file changes statuses only.
C16_OnlyStatusEverChanges ==
    [][ \A l \in Lists :
          (files[l].exists /\ files'[l].exists)
          => OnlyStatusesDiffer(files[l].todos, files'[l].todos) ]_vars

\* call c completes its updateTodo in this step
CompletesUpdate(c) ==
    /\ calls[c].sop = "updateTodo"
    /\ calls[c].pc = "loaded"
    /\ calls'[c].pc = "done"

\* C16 (amended): an update never changes the listId or seqno of its
\* target, changes no other todo, no other list and not the cache; an
\* update made through TodoService.updateTodo changes the status only,
\* and to the requested one. The store's own updateTodo also sets the
\* title when its caller passes one.
C16_UpdateFrame ==
    [][ \A c \in DOMAIN calls :
          CompletesUpdate(c)
          => LET l == calls[c].listId
                 old == files[l].todos
                 new == files'[l].todos
             IN  /\ cache' = cache
                 /\ \A m \in Lists \ {l} : files'[m] = files[m]
                 /\ Len(new) = Len(old)
                 /\ \A i \in DOMAIN old :
                      IF old[i].seqno = calls[c].seqno
                      THEN /\ new[i].listId = old[i].listId
                           /\ new[i].seqno = old[i].seqno
                           /\ calls[c].updates.title = Absent => new[i].title = old[i].title
                           /\ calls[c].updates.title # Absent => new[i].title = calls[c].updates.title
                           /\ calls[c].updates.status = Absent => new[i].status = old[i].status
                           /\ calls[c].op = "svc.updateTodo"
                              => /\ new[i].title = old[i].title
                                 /\ new[i].status = calls[c].updates.status
                      ELSE new[i] = old[i] ]_vars

\* C16 witness: a service-level update has changed the status of a todo
\* in a list of two todos or more, while another list exists.
C16_Witness ==
    \E c \in DoneCalls :
        /\ calls[c].op = "svc.updateTodo"
        /\ calls[c].result.kind = "todo"
        /\ calls[c].result.todo.status = "canceled"
        /\ Len(files[calls[c].listId].todos) >= 2
        /\ \E m \in Lists \ {calls[c].listId} : files[m].exists /\ files[m].todos # <<>>

\* C17: getTodosByListId returns a list's todos in ascending seqno order
\* whatever the order in which they were created, and every list file on
\* disk holds its todos sorted ascending by seqno.
C17_AscendingOrder ==
    /\ \A l \in Lists : files[l].exists => IsAscending(files[l].todos)
    /\ \A g \in DoneCalls :
         calls[g].op = "getTodosByListId" /\ calls[g].result.kind = "todos"
         => IsAscending(calls[g].result.todos)

\* C17 witness: todos were created with seqnos 3, then 1, then 2, and a
\* later getTodosByListId has returned them all.
C17_Witness ==
    /\ Len(calls) = ConcurrentCreates + 1
    /\ calls[1].seqno = 3 /\ calls[1].result.kind = "todo"
    /\ calls[2].seqno = 1 /\ calls[2].result.kind = "todo"
    /\ calls[3].seqno = 2 /\ calls[3].result.kind = "todo"
    /\ calls[ConcurrentCreates + 1].pc = "done"
    /\ calls[ConcurrentCreates + 1].result.kind = "todos"
    /\ {1, 2, 3} \subseteq SeqnosOf(calls[ConcurrentCreates + 1].result.todos)

\* calls that can change or remove a todo of the list once it exists
ChangesTodos(d) ==
    FirstStoreOp(calls[d].op) \in {"updateTodo", "deleteTodo", "deleteTodoList"}

\* call g fetches by (listId, seqno) the todo that call c had created before
\* g was issued, and no call has been asked to change the list since
FetchesJustCreated(c, g) ==
    /\ calls[g].op = "getTodo" /\ calls[g].pc = "done"
    /\ calls[c].sop = "createTodo" /\ c \in calls[g].before
    /\ calls[c].result.kind = "todo"
    /\ calls[c].result.todo.listId = calls[g].listId
    /\ calls[c].result.todo.seqno = calls[g].seqno
    /\ \A d \in DOMAIN calls : calls[d].listId = calls[g].listId => ~ChangesTodos(d)

\* C18: a todo that was just created and is then fetched by (listId, seqno)
\* equals the value its creation returned: the same listId, seqno and title,
\* and status pending.
C18_FetchEqualsCreated ==
    \A c \in DOMAIN calls, g \in DOMAIN calls :
        FetchesJustCreated(c, g)
        => /\ calls[g].result = calls[c].result
           /\ calls[g].result.todo =
                Todo(calls[g].listId, calls[g].seqno, calls[c].title, "pending")

\* C18 witness: a getTodo of a todo just created has returned
C18_Witness ==
    \E c \in DOMAIN calls, g \in DOMAIN calls :
        FetchesJustCreated(c, g) /\ calls[g].result.kind = "todo"

\* call c leaves the queue in this step: its updateTodo loads the list
StartsUpdate(c) ==
    /\ calls[c].sop = "updateTodo"
    /\ calls[c].pc = "queued"
    /\ calls'[c].pc # "queued"

\* the list file holds a todo with this key
HoldsTodo(l, s) == files[l].exists /\ s \in SeqnosOf(files[l].todos)

\* C19: status transitions are unconstrained: an update of an existing todo
\* through TodoService.updateTodo succeeds whatever status the todo has and
\* whatever status is requested, and the todo then has exactly the
\* requested status, in the returned value and in the list file.
C19_AnyStatusToAnyStatus ==
    [][ \A c \in DOMAIN calls :
          calls[c].op = "svc.updateTodo"
          => LET l == calls[c].listId
                 s == calls[c].seqno
                 to == calls[c].updates.status
             IN  /\ (StartsUpdate(c) /\ HoldsTodo(l, s)) => calls'[c].pc = "loaded"
                 /\ CompletesUpdate(c)
                    => /\ HoldsTodo(l, s)
                       /\ calls'[c].result.kind = "todo"
                       /\ calls'[c].result.todo.status = to
                       /\ \E i \in DOMAIN files'[l].todos :
                            /\ files'[l].todos[i].seqno = s
                            /\ files'[l].todos[i].status = to ]_vars

\* C19 witness: a todo that an update had completed was set back to
\* pending by a later update
C19_Witness ==
    \E c \in DoneCalls, d \in DoneCalls :
        /\ c \in calls[d].before
        /\ calls[c].op = "svc.updateTodo" /\ calls[d].op = "svc.updateTodo"
        /\ calls[c].seqno = calls[d].seqno
        /\ calls[c].result.kind = "todo" /\ calls[c].result.todo.status = "completed"
        /\ calls[d].result.kind = "todo" /\ calls[d].result.todo.status = "pending"
        /\ \E i \in DOMAIN files[TheList].todos :
             /\ files[TheList].todos[i].seqno = calls[d].seqno
             /\ files[TheList].todos[i].status = "pending"

\* call c runs the first part of its createTodoList in this step
StartsCreateList(c) ==
    /\ calls[c].sop = "createTodoList"
    /\ calls[c].pc = "queued"
    /\ calls'[c].pc # "queued"

\* call c returns from its createTodoList in this step
CompletesCreateList(c) ==
    /\ calls[c].sop = "createTodoList"
    /\ calls[c].pc = "saved"
    /\ calls'[c].pc = "done"

\* C20: createTodoList with an id that is already present is rejected with
\* ConstraintViolationException UNIQUE (code CONSTRAINT_VIOLATION) and leaves the
\* list, its todos and the cache unchanged; with an id that is not present
\* it writes a list file with an empty todos array, then adds the id to the
\* cache and returns the list.
C20_CreateTodoList ==
    [][ \A c \in DOMAIN calls :
          LET l == calls[c].listId
          IN  /\ (StartsCreateList(c) /\ l \in cache)
                 => /\ calls'[c].pc = "done"
                    /\ calls'[c].result = ConstraintViolationException("UNIQUE")
                    /\ calls'[c].result.code = "CONSTRAINT_VIOLATION"
                    /\ files' = files
                    /\ cache' = cache
              /\ (StartsCreateList(c) /\ l \notin cache)
                 => /\ calls'[c].pc = "saved"
                    /\ files'[l].exists /\ files'[l].todos = <<>>
                    /\ \A m \in Lists \ {l} : files'[m] = files[m]
                    /\ cache' = cache
              /\ CompletesCreateList(c)
                 => /\ calls'[c].result = ListValue(l)
                    /\ cache' = cache \cup {l}
                    /\ files' = files
                    /\ files[l].exists /\ files[l].todos = <<>> ]_vars

\* C20 witness: a list was created, and a second createTodoList with the
\* same id was rejected; the list is in the cache and its file exists
C20_Witness ==
    \E c \in DoneCalls, d \in DoneCalls :
        /\ calls[c].op = "createTodoList" /\ calls[d].op = "createTodoList"
        /\ calls[c].listId = calls[d].listId
        /\ calls[c].result = ListValue(calls[c].listId)
        /\ calls[d].result = ConstraintViolationException("UNIQUE")
        /\ calls[c].listId \in cache
        /\ files[calls[c].listId].exists

\* a getStore() call is made in this step
CallsGetStore ==
    /\ Len(service'.ops) = Len(service.ops) + 1
    /\ service'.ops[Len(service'.ops)].op = "getStore"

\* the value the getStore() call of this step returns or throws
GetStoreResult == service'.ops[Len(service'.ops)].result

\* a close() has closed the retained store and not yet cleared the reference
Closing == \E i \in DOMAIN service.ops : service.ops[i].pc = "closing"

\* C21: getStore() returns a backend exactly when a successful initialize()
\* has completed with no completed close() after it, and throws the
\* not-initialized error otherwise; a backend handed out while no close()
\* is in progress is an open one, also after a close() and a second
\* initialize().
C21_GetStoreIffInitialized ==
    [][ CallsGetStore
        => /\ GetStoreResult.kind = "backend" <=> service.live
           /\ ~service.live => GetStoreResult = NotInitialized
           /\ (service.live /\ ~Closing)
              => /\ GetStoreResult.store \notin service.closed
                 /\ GetStoreResult.store = service.made ]_vars

\* C21 witness: the service was initialized, closed, initialized again, and
\* getStore() then returned the second store, which is open
C21_Witness ==
    /\ Len(service.ops) = 4
    /\ service.ops[1] = ServiceOp("initialize", "done", Void)
    /\ service.ops[2] = ServiceOp("close", "done", Void)
    /\ service.ops[3] = ServiceOp("initialize", "done", Void)
    /\ service.ops[4] = ServiceOp("getStore", "done", Backend(2))
    /\ service.closed = {1}

\* the JSON payload of a tool response, parsed as a client parses it
Envelope(response) == JsonParse(response.content[1].text)

\* the response carries the error flag
ErrorFlagSet(response) == "isError" \in DOMAIN response /\ response.isError = TRUE

IsErrorEnvelope(response) ==
    /\ ErrorFlagSet(response)
    /\ HasKey(Envelope(response), "success")
    /\ Field(Envelope(response), "success") = JsBool(FALSE)

IsSuccessEnvelope(response) ==
    /\ ~ErrorFlagSet(response)
    /\ HasKey(Envelope(response), "success")
    /\ Field(Envelope(response), "success") = JsBool(TRUE)

\* the handler of tool call t has returned a response
Answered(t) == tools[t].pc = "done" /\ tools[t].response.kind = "returned"

\* a service call of the handler of t threw
ServiceThrew(t) == tools[t].call # 0 /\ IsThrow(calls[tools[t].call].result)

\* C22: no tool handler lets an exception escape: whatever its service call
\* threw, the handler returns a response (an error envelope); and a failed
\* call blocks no later one: the store's mutex is held by unfinished
\* operations only, and every handler that has not answered has a service
\* call that is settled, queued on the mutex or about to be queued.
C22_NoExceptionEscapes ==
    /\ \A t \in DOMAIN tools :
         /\ tools[t].response.kind # "throw"
         /\ tools[t].pc = "done" => tools[t].response.kind \in {"returned", "protocol_error"}
         /\ (tools[t].pc = "done" /\ ServiceThrew(t)) => IsErrorEnvelope(tools[t].response.value)
         /\ tools[t].pc # "done"
            => /\ tools[t].call \in DOMAIN calls
               /\ \/ calls[tools[t].call].pc \in {"done", "svcGot"}
                  \/ \E i \in DOMAIN queue : queue[i] = tools[t].call
    /\ queue # <<>> => calls[Head(queue)].pc \notin {"done", "svcGot"}

\* C22 witness: the store threw in one tool call, which was answered with
\* an error envelope, and a tool call received after that was served with
\* a success envelope
C22_Witness ==
    \E t \in DOMAIN tools, u \in DOMAIN tools :
        /\ Answered(t) /\ ServiceThrew(t)
        /\ IsErrorEnvelope(tools[t].response.value)
        /\ Answered(u) /\ tools[u].call # 0
        /\ tools[t].call \in calls[tools[u].call].before
        /\ IsSuccessEnvelope(tools[u].response.value)

\* tool call t is one of the four that address an existing todo or list
AddressesTarget(t) ==
    \/ tools[t].tool = "get-todos" /\ tools[t].seqno # 0
    \/ tools[t].tool \in {"update-todo", "delete-todo", "delete-todo-list"}

\* the service call c was made by the handler of such a tool call
LooksUpTarget(c) == \E t \in DOMAIN tools : AddressesTarget(t) /\ tools[t].call = c

\* C23: get-todos with a seqno, update-todo, delete-todo and delete-todo-list
\* called for a todo or list that does not exist return an error envelope
\* (success false, error flag set), and no step of their service call changes
\* a list file or the set of lists.
C23_AbsentTargetIsError ==
    [][ /\ \A t \in DOMAIN tools :
             ( /\ AddressesTarget(t)
               /\ tools[t].pc # "done" /\ tools'[t].pc = "done"
               /\ TargetMissing(tools[t].call) )
             => /\ tools'[t].response.kind = "returned"
                /\ IsErrorEnvelope(tools'[t].response.value)
        /\ \A c \in DOMAIN calls :
             ( /\ LooksUpTarget(c)
               /\ calls'[c].pc # calls[c].pc
               /\ TargetMissing(c)' )
             => files' = files /\ cache' = cache ]_vars

\* C23 witness: update-todo and delete-todo were both called for a seqno the
\* list does not hold; both were answered with an error envelope and the
\* list still holds its todos
C23_Witness ==
    \E t \in DOMAIN tools, u \in DOMAIN tools :
        /\ tools[t].tool = "update-todo" /\ tools[u].tool = "delete-todo"
        /\ Answered(t) /\ Answered(u)
        /\ tools[t].call # 0
        /\ TargetMissing(tools[t].call) /\ TargetMissing(tools[u].call)
        /\ calls[tools[t].call].result = Undefined
        /\ IsErrorEnvelope(tools[t].response.value)
        /\ IsErrorEnvelope(tools[u].response.value)
        /\ files[TheList].exists /\ files[TheList].todos # <<>>

\* the data a client finds in the answer to tool call t: the handler
\* returned a success envelope holding exactly this value
Carries(t, data) ==
    /\ Answered(t)
    /\ IsSuccessEnvelope(tools[t].response.value)
    /\ HasKey(Envelope(tools[t].response.value), "data")
    /\ Field(Envelope(tools[t].response.value), "data") = data

\* step i of the script has been answered
StepDone(i) == i \in DOMAIN tools /\ tools[i].pc = "done"

\* C24: the end-to-end scenario holds step by step: create-todo-list returns
\* data {id: L}; create-todo returns data {listId: L, seqno: 1, title,
\* status: "pending"}; update-todo to completed succeeds, after which
\* get-todos with seqno 1 reports status completed; after delete-todo,
\* get-todos on the list returns data {todos: [], count: 0}.
C24_EndToEndScenario ==
    client = Scenario("completed")
    => /\ StepDone(1) => Carries(1, formatTodoListInfo([id |-> ScriptList]))
       /\ StepDone(2) => Carries(2, formatTodo(Todo(ScriptList, 1, "Buy milk", "pending")))
       /\ StepDone(3) => Answered(3) /\ IsSuccessEnvelope(tools[3].response.value)
       /\ StepDone(4) => Carries(4, formatTodo(Todo(ScriptList, 1, "Buy milk", "completed")))
       /\ StepDone(5) => Answered(5) /\ IsSuccessEnvelope(tools[5].response.value)
       /\ StepDone(6) => Carries(6, formatTodoList(<<>>))

\* what the store call of tool call t found on disk when it ran
Found(t) == calls[tools[t].call].pre

\* get-todos t asked for the todos of a list that existed, and none of them
\* passed its status filter
ListingCameUpEmpty(t) ==
    /\ tools[t].tool = "get-todos" /\ tools[t].seqno = 0
    /\ Found(t).known /\ Found(t).file.exists
    /\ \A i \in DOMAIN Found(t).file.todos :
         tools[t].status # Absent /\ Found(t).file.todos[i].status # tools[t].status

\* get-todos t asked for one todo, which existed but not in the status asked for
TodoFilteredOut(t) ==
    /\ tools[t].tool = "get-todos" /\ tools[t].seqno # 0
    /\ tools[t].status # Absent
    /\ Found(t).file.exists
    /\ \E i \in DOMAIN Found(t).file.todos :
         /\ Found(t).file.todos[i].seqno = tools[t].seqno
         /\ Found(t).file.todos[i].status # tools[t].status

\* C25: get-todos on an existing list whose todos, after the optional status
\* filter, are empty returns a success response whose data is the "no todos
\* found" message, never an error response.
C25_EmptyMatchIsSuccess ==
    \A t \in DOMAIN tools :
        (tools[t].pc = "done" /\ tools[t].call # 0 /\ (ListingCameUpEmpty(t) \/ TodoFilteredOut(t)))
        => Carries(t, NoTodosFound)

\* C25 witness: a list with todos was listed with a status none of them has,
\* and the answer was the success envelope with the message
C25_Witness ==
    \E t \in DOMAIN tools :
        /\ Answered(t) /\ ListingCameUpEmpty(t)
        /\ tools[t].status # Absent
        /\ Found(t).file.todos # <<>>
        /\ Carries(t, NoTodosFound)

\* C26: every response a tool handler returns consists of exactly one text
\* item whose JSON payload carries a boolean success field, and the
\* response's error flag is set if and only if success is false.
C26_SelfDescribingEnvelope ==
    \A t \in DOMAIN tools :
        Answered(t)
        => LET response == tools[t].response.value
           IN  /\ Len(response.content) = 1
               /\ response.content[1].type = "text"
               /\ HasKey(Envelope(response), "success")
               /\ Field(Envelope(response), "success") \in {JsBool(TRUE), JsBool(FALSE)}
               /\ ErrorFlagSet(response) <=> Field(Envelope(response), "success") = JsBool(FALSE)

\* C26 witness: one tool call was answered with success true and no error
\* flag, another with success false and the error flag
C26_Witness ==
    \E t \in DOMAIN tools, u \in DOMAIN tools :
        /\ Answered(t) /\ Answered(u)
        /\ Field(Envelope(tools[t].response.value), "success") = JsBool(TRUE)
        /\ ~ErrorFlagSet(tools[t].response.value)
        /\ Field(Envelope(tools[u].response.value), "success") = JsBool(FALSE)
        /\ ErrorFlagSet(tools[u].response.value)

\* the call ended by throwing an exception of this class
Raised(r, name) == IsThrow(r) /\ r.name = name

\* the database the call found has a todos table without the listId column
FoundLegacy(file) == file.exists /\ ~file.corrupt /\ file.tables.todos # NoTable /\ "listId" \notin file.tables.todos

\* initialize call i of the SQLite store settles in this step
SettlesInitialize(i) ==
    db.calls[i].op = "initialize" /\ db.calls[i].pc = "mkdir" /\ db'.calls[i].pc = "done"

\* C27 as stated: initializing the SQLite backend against a database whose
\* todos table lacks the listId column raises IncompatibleSchema before any
\* table is created or altered, and leaves the database file byte for byte
\* unmodified.
C27_FileUntouched ==
    [][ \A i \in DOMAIN db.calls :
          (SettlesInitialize(i) /\ FoundLegacy(db.file))
          => /\ Raised(db'.calls[i].result, "IncompatibleSchemaException")
             /\ db'.file.tables = db.file.tables /\ db'.file.index = db.file.index
             /\ db'.file = db.file ]_vars

\* C27 amended: initializing the SQLite backend against a database whose
\* todos table lacks the listId column raises IncompatibleSchema before any
\* table or index is created or altered, and leaves the tables and rows of
\* the database as they were; only the journal mode in the file's header may
\* have changed, to write-ahead logging.
C27_SchemaAndRowsUntouched ==
    [][ \A i \in DOMAIN db.calls :
          (SettlesInitialize(i) /\ FoundLegacy(db.file))
          => /\ Raised(db'.calls[i].result, "IncompatibleSchemaException")
             /\ db'.file.tables = db.file.tables /\ db'.file.index = db.file.index
             /\ db'.file.lists = db.file.lists /\ db'.file.todos = db.file.todos
             /\ db'.file = [db.file EXCEPT !.journal = "wal"] ]_vars

\* C27 witness: initialize found a legacy database in rollback-journal mode
\* and was refused; the legacy table and its rows are still there, the file
\* is now in write-ahead-log mode
C27_Witness ==
    \E i \in DOMAIN db.calls :
        /\ db.calls[i].op = "initialize" /\ db.calls[i].pc = "done"
        /\ db.calls[i].pre = LegacyDbFile("delete")
        /\ Raised(db.calls[i].result, "IncompatibleSchemaException")
        /\ db.file = LegacyDbFile("wal")

\* the Data Service is closed: the last call made to it is a close() that
\* has returned, and it holds no store
DataServiceClosed ==
    /\ service.ops # <<>>
    /\ service.ops[Len(service.ops)] = ServiceOp("close", "done", Void)
    /\ service.store = NoStore
    /\ \A store \in 1..service.made : store \in service.closed

\* C28: on every path by which the server terminates itself the Data
\* Service is closed before the process exits; the exit status is 1 when
\* startup failed and 0 on SIGINT or SIGTERM after a successful startup.
C28_ClosedBeforeExit ==
    main.exit.kind = "exited"
    => /\ DataServiceClosed
       /\ main.cause = "startup" => main.exit.code = 1
       /\ main.cause \in Signals => main.exit.code = 0 /\ service.made > 0
       /\ main.cause \in Signals \cup {"startup"}

\* C28 witness: the server started, served, and exited with status 0 on a
\* signal after closing the store it had opened
C28_Witness ==
    /\ main.exit = Exited(0)
    /\ main.cause \in Signals
    /\ service.made > 0 /\ service.closed # {}
    /\ \E i \in DOMAIN service.ops : service.ops[i].op = "getStore"
    /\ DataServiceClosed

\* logToolCall i could not write its line
LogFailed(i) ==
    /\ log.calls[i].pc = "done"
    /\ \A k \in DOMAIN log.lines : log.lines[k] # formatLogEntry(log.calls[i].entry)

\* C29: logToolCall never raises to its caller: whether or not the log
\* directory could be created and the line appended, the call completes
\* normally and the tool call being logged returns its normal response.
C29_LoggerNeverRaises ==
    \A i \in DOMAIN log.calls :
        log.calls[i].pc = "done"
        => /\ log.calls[i].result = Void
           /\ log.calls[i].returned = log.calls[i].entry

\* C29 witness: the log directory could not be created, two calls were
\* logged without a line being written, and both tool calls returned their
\* responses, a success and an error
C29_Witness ==
    /\ ~log.dir /\ log.dirCreated /\ log.lines = <<>>
    /\ \E i \in DOMAIN log.calls, j \in DOMAIN log.calls :
         /\ LogFailed(i) /\ LogFailed(j)
         /\ log.calls[i].entry.success /\ ~log.calls[j].entry.success
         /\ log.calls[i].returned = log.calls[i].entry
         /\ log.calls[j].returned = log.calls[j].entry

\* C30: the JSON file backend and the SQLite backend are observationally
\* equivalent through the DataStore contract: the same sequence of operations
\* with the same inputs yields structurally identical results (returned
\* values, sentinels and exception kinds) from both.
C30_BackendsAgree ==
    \A c \in DoneCalls : calls[c].result = db.calls[c].result

\* two TodoService.createTodo calls on one list, the second issued before
\* the first has completed
ConcurrentServiceCreates(c, d) ==
    /\ c < d
    /\ calls[c].op = "svc.createTodo" /\ calls[d].op = "svc.createTodo"
    /\ calls[c].listId = calls[d].listId
    /\ c \notin calls[d].before

\* C31: two or more TodoService.createTodo calls issued concurrently against
\* the same existing list all succeed and receive pairwise distinct seqnos
\* (reading the current maximum and inserting the new todo are one atomic step).
C31_ConcurrentServiceCreatesAllSucceed ==
    \A c \in DoneCalls : \A d \in DoneCalls :
        (ConcurrentServiceCreates(c, d) /\ calls[c].listId \in start.cache)
        => /\ Succeeded(c)
           /\ Succeeded(d)
           /\ calls[c].result.todo.seqno # calls[d].result.todo.seqno

\* process p is about to write back the todos of a createTodo or updateTodo:
\* its next file-system call renames the temporary file over the list file,
\* which nobody has deleted
WritesBack(p) ==
    /\ Busy(p)
    /\ Task(p).pc = "rename"
    /\ Task(p).op \in {"createTodo", "updateTodo"}
    /\ IsDocument(files[Task(p).listId])

\* C32: with two processes on one data directory, each read-modify-write of
\* a list file is atomic with respect to the other process: the file a
\* process writes back over is the file it read (no change written in between
\* is overwritten and lost), and a creation never writes over a file that
\* already holds its (listId, seqno) (two creations of one key never both succeed).
C32_ReadModifyWriteAtomic ==
    \A p \in Procs :
        WritesBack(p) =>
            /\ files[Task(p).listId] = Task(p).buf
            /\ Task(p).op = "createTodo"
                   => Task(p).seqno \notin SeqnosOf(files[Task(p).listId].todos)

\* the last operation of p was a deleteTodoList that returned true
DeletedTheList(p) ==
    /\ proc[p].last.op = "deleteTodoList"
    /\ proc[p].last.result = Bool(TRUE)

\* no operation is in flight in any process
Quiescent == \A p \in Procs : ~Busy(p)

\* C33: once deleteTodoList for a list has completed in a process and the
\* operations in flight in the other processes have finished, no file of
\* that list exists, unless the list was created again: a concurrent todo
\* write in another process never re-creates a deleted list's file.
C33_DeletedListStaysDeleted ==
    ( /\ Quiescent
      /\ \E p \in Procs : DeletedTheList(p)
      /\ \A p \in Procs : proc[p].last.op # "createTodoList" )
    => ~files[TheList].exists

\* C34: a FileOperationException with operation kind LOCK is raised only
\* when acquiring the advisory lock failed (the lock was still held after
\* the retries): a failed read or write under the lock, or a missing file,
\* is never reported as a lock failure.
C34_KindLockOnlyForLockFailure ==
    \A p \in Procs :
        (proc[p].last # Idle /\ proc[p].last.result = FileOperationException("LOCK"))
        => GaveUp(p)

\* the ids of the list files present on disk
ListFilesOnDisk == {l \in Lists : files[l].exists}

\* C35: in a single process with no other process touching the data
\* directory, after every completed store operation (whether it returned or
\* raised) the set of list ids in the cache equals the set of list files on disk.
C35_CacheEqualsFilesOnDisk ==
    ~Busy(FirstProc) => proc[FirstProc].cache = ListFilesOnDisk

\* the positions of an operation between lockfile.lock and release()
UnderLock == {"read", "release", "tmp", "rename"}

\* C36: every advisory lock acquired by withFileLock is released before
\* withFileLock returns or raises, on the success path and on every failure
\* path: a lock is held only by a process whose operation is inside
\* withFileLock on that file, so none is held once the operation has finished.
C36_LockHeldOnlyInsideWithFileLock ==
    \A p \in Procs : \A l \in Lists :
        lock[l] = p => (Busy(p) /\ Task(p).listId = l /\ Task(p).pc \in UnderLock)

\* an operation has raised out of withFileLock after acquiring the lock (its
\* write failed), and the lock is free again
C36_Witness ==
    /\ ~Busy(FirstProc)
    /\ proc[FirstProc].last # Idle
    /\ proc[FirstProc].last.phase = "save"
    /\ proc[FirstProc].last.result = FileOperationException("WRITE")
    /\ lock[proc[FirstProc].last.listId] = Free

\* no operation is queued on the mutex twice: none waits for it while holding it
NoReentry == \A i \in DOMAIN queue : \A j \in DOMAIN queue : queue[i] = queue[j] => i = j

\* an operation that has returned or raised is out of the mutex queue
ReleasedWhenDone == \A c \in DoneCalls : \A i \in DOMAIN queue : queue[i] # c

\* C37: the JSON store is deadlock-free: no public operation waits for the
\* process-wide mutex while already holding it, every operation releases
\* the mutex when it returns or raises, and so every operation issued,
\* also one queued behind an operation that fails, eventually completes
\* (again and again every call issued so far has completed).
C37_DeadlockFree ==
    /\ [](NoReentry /\ ReleasedWhenDone)
    /\ []<>(DoneCalls = DOMAIN calls)

\* an operation was queued behind one that then raised, and has completed
C37_Witness ==
    \E d \in DoneCalls : \E c \in DoneCalls :
        /\ d < c
        /\ d \notin calls[c].before
        /\ IsThrow(calls[d].result)


\* what update-todo answers when UpdateTodoSchema.parse refuses its arguments
UpdateSchemaRefusal ==
    HandlerReturn(safeExecute(ZodError("status"), "Failed to update todo"), Undefined)

\* update-todo call t was answered, and its arguments had passed the schema
\* the tool is registered with
UpdateAcceptedByTool(t) ==
    /\ tools[t].tool = "update-todo"
    /\ tools[t].pc = "done"
    /\ PassesToolSchema(tools[t])

\* some status filter that get-todos accepts selects todos of this status
Selectable(status) ==
    \E f \in ToolStatuses : PassesToolSchema(ToolRequest("get-todos", TheList, 0, f, "")) /\ f = status

\* C38: a status that passes the tool-level validation of update-todo is
\* never refused by the model's update schema, and every status stored in
\* the list's file can be selected by a status filter of get-todos.
C38_ToolStatusesAreModelStatuses ==
    /\ \A t \in DOMAIN tools :
         UpdateAcceptedByTool(t) => tools[t].response # UpdateSchemaRefusal
    /\ IsDocument(files[TheList]) =>
         \A i \in DOMAIN files[TheList].todos : Selectable(files[TheList].todos[i].status)


\* the backends the factory made for the service whose close() has not run
OpenStores == (1..service.made) \ service.closed

\* call i of the service is a close() that settles in this step
CloseSettles(i) ==
    /\ service'.ops[i].op = "close" /\ service'.ops[i].pc = "done"
    /\ i \in DOMAIN service.ops => service.ops[i].pc # "done"

\* C39: at most one backend made by the DataService is open at any time, an
\* open backend is the one the service retains (initialize() on an
\* initialized service leaves none open and unreferenced), and when a
\* close() settles the retained reference is cleared, also when the
\* backend's close() raised.
C39_OneOpenBackend ==
    /\ [](Cardinality(OpenStores) <= 1 /\ OpenStores \subseteq {service.store})
    /\ [][\A i \in DOMAIN service'.ops : CloseSettles(i) => service'.store = NoStore]_vars


\* loadAllTodoLists on file f: `this.todoListCache.set(listId, data.todoList)`,
\* the record the cache entry gets (a property the parsed object lacks reads
\* as undefined)
CacheEntryBuilt(f) == IF "todoList" \in DOMAIN f THEN f.todoList ELSE "undefined"

\* the file of list l holds the record of l and todos of l only
ListFileConsistent(l) ==
    /\ IsDocument(files[l])
    /\ files[l].todoList = l
    /\ \A i \in DOMAIN files[l].todos : files[l].todos[i].listId = l

\* C40: once the store's operations have completed, every list file the
\* store has written holds a todoList record whose id is the id in the
\* file's name and todos whose listId is that id, and the cache entry that
\* initialize() builds from the file holds that record.
C40_FilesAndCacheKeyedByOwnId ==
    Quiescent =>
        \A l \in ListFilesOnDisk : ListFileConsistent(l) /\ CacheEntryBuilt(files[l]) = l

====
